---- MODULE Spec2Model ----
(***************************************************************************)
(* A model of the DDALAB launcher's self-update subsystem                  *)
(* (package updater): release check, version parsing, asset selection,     *)
(* archive extraction and the two install strategies, and of its callers:  *)
(* the update action of the terminal launcher's main loop and of the GUI.  *)
(*                                                                         *)
(* Strings are TLA+ strings; TLC evaluates Len, SubSeq and \o on them.     *)
(***************************************************************************)
EXTENDS Integers, Sequences, FiniteSets, TLC

VARIABLES
    goos,            \* runtime.GOOS
    goarch,          \* runtime.GOARCH
    faults,          \* whether the environment makes I/O calls fail
    health,          \* what a status check can find DDALAB to be during this run
    now,             \* the wall clock, in hours since the first start of the launcher
    currentVersion,  \* Updater.currentVersion
    release,         \* the GitHubRelease decoded by the last CheckForUpdates
    updateInfo,      \* the *UpdateInfo CheckForUpdates returned (NoInfo when nil)
    checkErr,        \* the error CheckForUpdates returned
    checks,          \* the number of CheckForUpdates calls made so far
    checkTimes,      \* the hours at which CheckForUpdates was called (history)
    fs,              \* the directory of the executable: path -> file or NoFile
    pc,              \* per PerformUpdate call: the next step of the call
    updateBody,      \* per call: the reader handed to the install strategy
    err,             \* per call: the error the call returns
    failedAt,        \* per call: the set of I/O steps that failed (history)
    request,         \* per call: downloadURL and the HTTP response (history)
    script,          \* the deferred batch script: its next line
    parsed,          \* the last two ParseVersion calls: inputs and results
    front,           \* the caller of the updater: "terminal", "gui" or "none"
    at,              \* the caller's position: at the menu, in the update action, ...
    choice,          \* the last result of the main menu
    ctx,             \* the context of the running operation
    handler,         \* interrupt.Handler: active, notifyCh, waiting handleSignals
    fnErr,           \* the error the update action returned
    events,          \* what the running operation has shown and called, in order
    config,          \* ConfigManager's config in memory
    configFile,      \* the config as last saved
    running,         \* Monitor.running
    loops,           \* the monitorLoop goroutines started so far: where each is
    callers,         \* the goroutines calling Start and Stop: where each is
    monitorCalls,    \* the number of Start and Stop calls made so far
    currentStatus,   \* Monitor.currentStatus
    editor           \* the ConfigEditorModel

vars == <<goos, goarch, faults, health, now, currentVersion, release, updateInfo, checkErr, checks,
          checkTimes,
          fs, pc, updateBody, err, failedAt, request, script, parsed,
          front, at, choice, ctx, handler, fnErr, events, config, configFile,
          running, loops, callers, monitorCalls, currentStatus, editor>>

\* the status monitor
monitorVars == <<running, loops, callers, monitorCalls, currentStatus>>

\* the status monitor but for the status it holds
monitorRest == <<running, loops, callers, monitorCalls>>

\* the build, its environment and the editor
worldVars == <<goos, goarch, faults, health, now, editor>>

\* the build and its environment
envVars == <<worldVars, monitorVars>>

\* the state outside CheckForUpdates and PerformUpdate
callerVars == <<front, at, choice, ctx, handler, fnErr, events, config, configFile>>
outerVars  == <<parsed, callerVars>>

checkVars   == <<currentVersion, release, updateInfo, checkErr, checks, checkTimes>>
installVars == <<fs, pc, updateBody, err, failedAt, request, script>>

(***************************************************************************)
(* package strings / path/filepath                                         *)
(***************************************************************************)

\* strings.HasPrefix
HasPrefix(s, prefix) ==
    /\ Len(s) >= Len(prefix)
    /\ SubSeq(s, 1, Len(prefix)) = prefix

\* strings.HasSuffix
HasSuffix(s, suffix) ==
    /\ Len(s) >= Len(suffix)
    /\ SubSeq(s, Len(s) - Len(suffix) + 1, Len(s)) = suffix

\* strings.Contains
Contains(s, substr) ==
    \E i \in 1..(Len(s) - Len(substr) + 1) : SubSeq(s, i, i + Len(substr) - 1) = substr

\* strings.TrimPrefix
TrimPrefix(s, prefix) ==
    IF HasPrefix(s, prefix) THEN SubSeq(s, Len(prefix) + 1, Len(s)) ELSE s

\* strings.IndexRune, 1-based; 0 when the rune does not occur
IndexRune(s, c) ==
    IF \E i \in 1..Len(s) : SubSeq(s, i, i) = c
    THEN CHOOSE i \in 1..Len(s) :
             /\ SubSeq(s, i, i) = c
             /\ \A j \in 1..(i - 1) : SubSeq(s, j, j) # c
    ELSE 0

\* strings.Split(s, sep) for a one-character separator
RECURSIVE Split(_, _)
Split(s, sep) ==
    LET i == IndexRune(s, sep)
    IN  IF i = 0 THEN <<s>>
        ELSE <<SubSeq(s, 1, i - 1)>> \o Split(SubSeq(s, i + 1, Len(s)), sep)

\* strings.SplitN(s, sep, n) for a one-character separator and n >= 1
RECURSIVE SplitN(_, _, _)
SplitN(s, sep, n) ==
    LET i == IndexRune(s, sep)
    IN  IF n = 1 \/ i = 0 THEN <<s>>
        ELSE <<SubSeq(s, 1, i - 1)>> \o SplitN(SubSeq(s, i + 1, Len(s)), sep, n - 1)

\* index of the last "/" of s, 0 when there is none
LastSlash(s) ==
    IF \E i \in 1..Len(s) : SubSeq(s, i, i) = "/"
    THEN CHOOSE i \in 1..Len(s) :
             /\ SubSeq(s, i, i) = "/"
             /\ \A j \in (i + 1)..Len(s) : SubSeq(s, j, j) # "/"
    ELSE 0

\* trailing slashes removed
RECURSIVE StripTrailingSlashes(_)
StripTrailingSlashes(s) ==
    IF Len(s) > 0 /\ SubSeq(s, Len(s), Len(s)) = "/"
    THEN StripTrailingSlashes(SubSeq(s, 1, Len(s) - 1))
    ELSE s

\* filepath.Base
Base(path) ==
    IF path = "" THEN "."
    ELSE LET p == StripTrailingSlashes(path)
         IN  IF p = "" THEN "/"
             ELSE SubSeq(p, LastSlash(p) + 1, Len(p))

(***************************************************************************)
(* github.com/blang/semver/v4, as called by parseVersion                   *)
(***************************************************************************)

\* the characters semver accepts, in ASCII order
Alphanum == "-0123456789ABCDEFGHIJKLMNOPQRSTUVWXYZabcdefghijklmnopqrstuvwxyz"
Numbers  == "0123456789"

\* position of a character in the ASCII-ordered alphabet (0: not in it)
CharCode(c) == IndexRune(Alphanum, c)

\* semver.containsOnly
ContainsOnly(s, set) ==
    \A i \in 1..Len(s) : IndexRune(set, SubSeq(s, i, i)) # 0

\* semver.hasLeadingZeroes
HasLeadingZeroes(s) == Len(s) > 1 /\ SubSeq(s, 1, 1) = "0"

\* only the last digit is read
ParseUint_LastDigit(s) ==
    IF Len(s) = 0 THEN 0 ELSE IndexRune(Numbers, SubSeq(s, Len(s), Len(s))) - 1

\* strconv.ParseUint(s, 10, 64) on a string of digits
RECURSIVE ParseUint(_)
ParseUint(s) ==
    IF Len(s) = 0 THEN 0
    ELSE 10 * ParseUint(SubSeq(s, 1, Len(s) - 1))
         + (IndexRune(Numbers, SubSeq(s, Len(s), Len(s))) - 1)

\* a numeric version element: digits only, non-empty, no leading zero
ValidNumber(s) == s # "" /\ ContainsOnly(s, Numbers) /\ ~HasLeadingZeroes(s)

\* semver.NewPRVersion: one dot-separated pre-release element
ValidPR(s) ==
    /\ s # ""
    /\ IF ContainsOnly(s, Numbers) THEN ~HasLeadingZeroes(s)
       ELSE ContainsOnly(s, Alphanum)

NewPRVersion(s) ==
    IF ContainsOnly(s, Numbers)
    THEN [IsNum |-> TRUE,  VersionNum |-> ParseUint(s), VersionStr |-> ""]
    ELSE [IsNum |-> FALSE, VersionNum |-> 0,            VersionStr |-> s]

ParseError == [ok |-> FALSE]

\* semver.Parse
SemverParse(s) ==
    IF Len(s) = 0 THEN ParseError
    ELSE
    LET parts == SplitN(s, ".", 3) IN
    IF Len(parts) # 3 THEN ParseError
    ELSE IF ~ValidNumber(parts[1]) \/ ~ValidNumber(parts[2]) THEN ParseError
    ELSE
    LET buildIndex == IndexRune(parts[3], "+")
        build      == IF buildIndex # 0
                      THEN Split(SubSeq(parts[3], buildIndex + 1, Len(parts[3])), ".")
                      ELSE <<>>
        noBuild    == IF buildIndex # 0
                      THEN SubSeq(parts[3], 1, buildIndex - 1)
                      ELSE parts[3]
        preIndex   == IndexRune(noBuild, "-")
        prerelease == IF preIndex # 0
                      THEN Split(SubSeq(noBuild, preIndex + 1, Len(noBuild)), ".")
                      ELSE <<>>
        patchStr   == IF preIndex # 0
                      THEN SubSeq(noBuild, 1, preIndex - 1)
                      ELSE noBuild
    IN  IF ~ValidNumber(patchStr) THEN ParseError
        ELSE IF \E i \in 1..Len(prerelease) : ~ValidPR(prerelease[i]) THEN ParseError
        ELSE IF \E i \in 1..Len(build) :
                    build[i] = "" \/ ~ContainsOnly(build[i], Alphanum) THEN ParseError
        ELSE [ok    |-> TRUE,
              Major |-> ParseUint(parts[1]),
              Minor |-> ParseUint(parts[2]),
              Patch |-> ParseUint(patchStr),
              Pre   |-> [i \in 1..Len(prerelease) |-> NewPRVersion(prerelease[i])],
              Build |-> build]

\* Go's string comparison (byte-wise): -1, 0 or 1
RECURSIVE StrCompare(_, _)
StrCompare(a, b) ==
    IF a = "" /\ b = "" THEN 0
    ELSE IF a = "" THEN -1
    ELSE IF b = "" THEN 1
    ELSE LET ca == CharCode(SubSeq(a, 1, 1))
             cb == CharCode(SubSeq(b, 1, 1))
         IN  IF ca < cb THEN -1
             ELSE IF ca > cb THEN 1
             ELSE StrCompare(SubSeq(a, 2, Len(a)), SubSeq(b, 2, Len(b)))

\* semver.PRVersion.Compare
PRCompare(v, o) ==
    IF v.IsNum /\ ~o.IsNum THEN -1
    ELSE IF ~v.IsNum /\ o.IsNum THEN 1
    ELSE IF v.IsNum /\ o.IsNum
         THEN IF v.VersionNum = o.VersionNum THEN 0
              ELSE IF v.VersionNum > o.VersionNum THEN 1 ELSE -1
         ELSE StrCompare(v.VersionStr, o.VersionStr)

\* the loop of semver.Version.Compare over the pre-release elements, from i
RECURSIVE PreCompareFrom(_, _, _)
PreCompareFrom(vp, op, i) ==
    IF i <= Len(vp) /\ i <= Len(op)
    THEN LET comp == PRCompare(vp[i], op[i])
         IN  IF comp = 0 THEN PreCompareFrom(vp, op, i + 1) ELSE comp
    ELSE IF i > Len(vp) /\ i > Len(op) THEN 0
    ELSE IF i > Len(vp) THEN -1
    ELSE 1

\* semver.Version.Compare
VersionCompare(v, o) ==
    IF v.Major # o.Major THEN (IF v.Major > o.Major THEN 1 ELSE -1)
    ELSE IF v.Minor # o.Minor THEN (IF v.Minor > o.Minor THEN 1 ELSE -1)
    ELSE IF v.Patch # o.Patch THEN (IF v.Patch > o.Patch THEN 1 ELSE -1)
    ELSE IF Len(v.Pre) = 0 /\ Len(o.Pre) = 0 THEN 0
    ELSE IF Len(v.Pre) = 0 /\ Len(o.Pre) > 0 THEN 1
    ELSE IF Len(v.Pre) > 0 /\ Len(o.Pre) = 0 THEN -1
    ELSE PreCompareFrom(v.Pre, o.Pre, 1)

\* semver.Version.GT
GT(v, o) == VersionCompare(v, o) = 1

(***************************************************************************)
(* Updater: version parsing, asset selection, CheckForUpdates              *)
(***************************************************************************)

\* the "dev" test made before the prefix is removed
parseVersion_DevBeforeTrim(version) ==
    IF version = "dev"
    THEN [ok |-> TRUE, Major |-> 0, Minor |-> 0, Patch |-> 0, Pre |-> <<>>, Build |-> <<>>]
    ELSE SemverParse(TrimPrefix(version, "v"))

\* Updater.parseVersion
parseVersion(version) ==
    LET cleanVersion == TrimPrefix(version, "v")
    IN  IF cleanVersion = "dev"
        THEN [ok |-> TRUE, Major |-> 0, Minor |-> 0, Patch |-> 0,
              Pre |-> <<>>, Build |-> <<>>]
        ELSE SemverParse(cleanVersion)

\* platformMap of findPlatformBinary
platformMap ==
    [darwin  |-> <<"darwin-amd64", "darwin-arm64">>,
     linux   |-> <<"linux-amd64", "linux-arm64">>,
     windows |-> <<"windows-amd64", "windows-arm64">>]

\* archMap of findPlatformBinary, with its "amd64" default
archString(arch) ==
    IF arch \in {"amd64", "arm64", "386"} THEN arch ELSE "amd64"

\* no archive-format test
SuffixMatchesOS_Any(os, name) == TRUE

\* the archive-format test of findPlatformBinary
SuffixMatchesOS(os, name) ==
    \/ os = "windows" /\ HasSuffix(name, ".zip")
    \/ os # "windows" /\ HasSuffix(name, ".tar.gz")

\* index of the first asset whose name contains token and has the OS's suffix
FirstAsset(assets, os, token) ==
    LET hits == {i \in 1..Len(assets) :
                    Contains(assets[i].Name, token) /\ SuffixMatchesOS(os, assets[i].Name)}
    IN  IF hits = {} THEN 0 ELSE CHOOSE i \in hits : \A j \in hits : i <= j

NoBinary == [url |-> "", size |-> 0]

\* the exact pass only
findPlatformBinary_ExactOnly(assets, os, arch) ==
    LET hits == {i \in 1..Len(assets) :
                    /\ Contains(assets[i].Name, os \o "-" \o arch)
                    /\ SuffixMatchesOS(os, assets[i].Name)}
    IN  IF hits = {} THEN NoBinary
        ELSE LET i == CHOOSE i \in hits : \A j \in hits : i <= j
             IN  [url |-> assets[i].BrowserDownloadURL, size |-> assets[i].Size]

\* Updater.findPlatformBinary
findPlatformBinary(assets, os, arch) ==
    IF os \notin DOMAIN platformMap THEN NoBinary
    ELSE
    LET platformStrings == platformMap[os]
        expectedName    == os \o "-" \o archString(arch)
        exact           == FirstAsset(assets, os, expectedName)
        fallback1       == FirstAsset(assets, os, platformStrings[1])
        fallback2       == FirstAsset(assets, os, platformStrings[2])
        pick(i)         == [url |-> assets[i].BrowserDownloadURL, size |-> assets[i].Size]
    IN  IF exact # 0 THEN pick(exact)
        ELSE IF fallback1 # 0 THEN pick(fallback1)
        ELSE IF fallback2 # 0 THEN pick(fallback2)
        ELSE NoBinary

\* latestVer.GTE(currentVer) in place of GT
HasUpdate_GTE(latestVer, currentVer) == VersionCompare(latestVer, currentVer) >= 0

\* the HasUpdate field: latestVer.GT(currentVer)
HasUpdate(latestVer, currentVer) == GT(latestVer, currentVer)

NoInfo    == [none |-> TRUE]
NoRelease == [none |-> TRUE]
NoError   == "nil"

\* the body of CheckForUpdates after a decoded release: (UpdateInfo, error)
CheckResult(current, rel, os, arch) ==
    LET currentVer == parseVersion(current)
        latestVer  == parseVersion(rel.TagName)
        binary     == findPlatformBinary(rel.Assets, os, arch)
    IN  IF ~currentVer.ok
        THEN [info |-> NoInfo, err |-> "failed to parse current version"]
        ELSE IF ~latestVer.ok
        THEN [info |-> NoInfo, err |-> "failed to parse latest version"]
        ELSE [info |-> [CurrentVersion |-> current,
                        LatestVersion  |-> rel.TagName,
                        ReleaseNotes   |-> rel.Body,
                        DownloadURL    |-> binary.url,
                        Size           |-> binary.size,
                        PublishedAt    |-> rel.PublishedAt,
                        HasUpdate      |-> HasUpdate(latestVer, currentVer)],
              err  |-> NoError]

(***************************************************************************)
(* Archive extraction                                                      *)
(***************************************************************************)

\* the size threshold of extractFromTarGz and extractFromZip
MinBinarySize == 1024

\* expectedPatterns of extractFromTarGz
TarPatterns(os, arch) ==
    LET base == <<"ddalab-launcher-" \o os \o "-" \o arch,
                  "launcher-" \o os \o "-" \o arch,
                  os \o "-" \o arch>>
    IN  IF os = "windows"
        THEN base \o [i \in 1..Len(base) |-> base[i] \o ".exe"]
        ELSE base

\* expectedPatterns of extractFromZip
ZipPatterns(os, arch) ==
    <<"ddalab-launcher-" \o os \o "-" \o arch \o ".exe",
      "launcher-" \o os \o "-" \o arch \o ".exe",
      os \o "-" \o arch \o ".exe",
      "ddalab-launcher.exe",
      "launcher.exe">>

\* the pattern loop: fileName == pattern || strings.Contains(fileName, pattern)
MatchesPattern(fileName, patterns) ==
    \E i \in 1..Len(patterns) : fileName = patterns[i] \/ Contains(fileName, patterns[i])

\* the generic-name test of extractFromTarGz
TarGenericMatch(name, os, arch) ==
    LET fileName == Base(name)
    IN  /\ \/ fileName = "ddalab-launcher"
           \/ fileName = "launcher"
           \/ os = "windows" /\ (fileName = "ddalab-launcher.exe" \/ fileName = "launcher.exe")
        /\ Contains(name, os \o "-" \o arch)

\* the generic-name test of extractFromZip
ZipGenericMatch(name, os, arch) ==
    LET fileName == Base(name)
    IN  /\ (fileName = "ddalab-launcher.exe" \/ fileName = "launcher.exe")
        /\ Contains(name, os \o "-" \o arch)

\* isCorrectBinary for one tar entry
TarIsCorrectBinary(entry, os, arch) ==
    /\ entry.Typeflag # "dir"
    /\ \/ MatchesPattern(Base(entry.Name), TarPatterns(os, arch))
       \/ TarGenericMatch(entry.Name, os, arch)

\* isCorrectBinary for one zip entry
ZipIsCorrectBinary(entry, os, arch) ==
    /\ entry.Typeflag # "dir"
    /\ \/ MatchesPattern(Base(entry.Name), ZipPatterns(os, arch))
       \/ ZipGenericMatch(entry.Name, os, arch)

EmptyData == [id |-> "empty", size |-> 0]

\* strconv.FormatUint(n, 10), the %d of fmt
RECURSIVE FormatUint(_)
FormatUint(n) ==
    IF n < 10 THEN SubSeq(Numbers, n + 1, n + 1)
    ELSE FormatUint(n \div 10) \o SubSeq(Numbers, (n % 10) + 1, (n % 10) + 1)

\* the %v of fmt on a []string: [a b c]
RECURSIVE JoinStrings(_)
JoinStrings(strs) ==
    IF Len(strs) = 0 THEN ""
    ELSE IF Len(strs) = 1 THEN strs[1]
    ELSE strs[1] \o " " \o JoinStrings(Tail(strs))

FormatStrings(strs) == "[" \o JoinStrings(strs) \o "]"

\* the message without the patterns
NoBinaryError_NoPatterns(where, os, arch, patterns) ==
    "no binary found for platform " \o os \o "-" \o arch \o " in " \o where

\* the error of an archive without a matching entry; where is "archive" or "ZIP archive"
NoBinaryError(where, os, arch, patterns) ==
    "no binary found for platform " \o os \o "-" \o arch \o " in " \o where
        \o ". Expected patterns: " \o FormatStrings(patterns)

\* the size check left out
SizeChecked_NoMinimum(binaryData, foundBinaryName, notFound) ==
    IF binaryData.size = 0
    THEN [ok |-> FALSE, err |-> notFound, data |-> EmptyData]
    ELSE [ok |-> TRUE, err |-> NoError, data |-> binaryData]

\* the two checks after the entry loop: len(binaryData) == 0, len(binaryData) < 1024
SizeChecked(binaryData, foundBinaryName, notFound) ==
    IF binaryData.size = 0
    THEN [ok |-> FALSE, err |-> notFound, data |-> EmptyData]
    ELSE IF binaryData.size < MinBinarySize
    THEN [ok |-> FALSE,
          err |-> "extracted binary '" \o foundBinaryName \o "' is too small ("
                    \o FormatUint(binaryData.size) \o " bytes), likely not a valid executable",
          data |-> EmptyData]
    ELSE [ok |-> TRUE, err |-> NoError, data |-> binaryData]

\* Updater.extractFromTarGz
extractFromTarGz(body, os, arch) ==
    IF body.format # "tar.gz"
    THEN [ok |-> FALSE, err |-> "failed to create gzip reader", data |-> EmptyData]
    ELSE LET hits == {i \in 1..Len(body.entries) :
                         TarIsCorrectBinary(body.entries[i], os, arch)}
             first == CHOOSE i \in hits : \A j \in hits : i <= j
             binaryData == IF hits = {} THEN EmptyData ELSE body.entries[first].Data
             foundBinaryName == IF hits = {} THEN "" ELSE Base(body.entries[first].Name)
         IN  SizeChecked(binaryData, foundBinaryName,
                         NoBinaryError("archive", os, arch, TarPatterns(os, arch)))

\* Updater.extractFromZip
extractFromZip(body, os, arch) ==
    IF body.format # "zip"
    THEN [ok |-> FALSE, err |-> "failed to create ZIP reader", data |-> EmptyData]
    ELSE LET hits == {i \in 1..Len(body.entries) :
                         ZipIsCorrectBinary(body.entries[i], os, arch)}
             first == CHOOSE i \in hits : \A j \in hits : i <= j
             binaryData == IF hits = {} THEN EmptyData ELSE body.entries[first].Data
             foundBinaryName == IF hits = {} THEN "" ELSE Base(body.entries[first].Name)
         IN  SizeChecked(binaryData, foundBinaryName,
                         NoBinaryError("ZIP archive", os, arch, ZipPatterns(os, arch)))

\* Updater.extractBinaryFromArchive
extractBinaryFromArchive(body, archiveURL, os, arch) ==
    IF HasSuffix(archiveURL, ".tar.gz") THEN extractFromTarGz(body, os, arch)
    ELSE IF HasSuffix(archiveURL, ".zip") THEN extractFromZip(body, os, arch)
    ELSE [ok |-> TRUE, err |-> NoError, data |-> body.stream]

(***************************************************************************)
(* The file system next to the executable                                  *)
(***************************************************************************)

\* file modes: 0755 (os.Chmod), 0600 (os.CreateTemp), 0644 (os.WriteFile)
Mode0755 == 493
Mode0600 == 384
Mode0644 == 420

\* the mode update.Apply leaves on its target: 0755 masked by the umask
ApplyModes == {448, 493}

Procs == {1, 2}

CurrentExe      == "launcher"
BackupPath      == CurrentExe \o ".backup"
NewPath         == CurrentExe \o ".new"
BatchPath       == CurrentExe \o ".update.bat"
OldPath         == CurrentExe \o ".old"
\* os.CreateTemp(tempDir, "launcher-update-*"): a fresh name for every call
TempPath(p)     == IF p = 1 THEN "launcher-update-1" ELSE "launcher-update-2"

Paths == {CurrentExe, BackupPath, NewPath, BatchPath, OldPath} \cup {TempPath(p) : p \in Procs}

NoFile == [none |-> TRUE]

OriginalBinary == [data |-> [id |-> "ORIG", size |-> 4096], mode |-> Mode0755]
BatchContent   == [id |-> "batch", size |-> 200]

Exists(f, path) == f[path] # NoFile

\* os.Rename when it succeeds
Rename(f, from, to) == [f EXCEPT ![to] = f[from], ![from] = NoFile]

\* os.Remove when it succeeds
Remove(f, path) == [f EXCEPT ![path] = NoFile]

\* the outcomes of an I/O call: it works, or the environment makes it fail
IOErrors == IF faults THEN BOOLEAN ELSE {FALSE}

(***************************************************************************)
(* The configuration editor                                                *)
(***************************************************************************)

\* The fields of ConfigEditorModel that only View reads (width, height,
\* saved, message, showSecrets) are left out, and with them the keys "t" and
\* "?", which change nothing else.

\* the longest text typed into the search field or into a value
MaxTyped == 1

\* the characters typed into the search field and into values
Chars == {"d", "z"}

\* the keys pressed in normal mode, and in edit and search mode
NormalKeys ==
    {"q", "up", "down", "pgup", "pgdown", "home", "end", "enter", "/", "s", "r"}
FieldKeys == {"enter", "esc", "backspace", "ctrl+u"} \cup Chars

EnvVar(key, value, section) ==
    [Key |-> key, Value |-> value, Comment |-> "", Section |-> section]

\* the env files the editor is opened on: an empty one, and one with two variables
EnvFiles ==
    {<<>>,
     <<EnvVar("DB_HOST", "db", "Database"), EnvVar("PORT", "80", "API")>>}

\* NewConfigEditor over the variables of a loaded env file
NewConfigEditor(variables) ==
    [Variables |-> variables, originalVars |-> variables, filteredVars |-> variables,
     cursor |-> 0, editMode |-> FALSE, editingValue |-> "", editingKey |-> "",
     searchMode |-> FALSE, searchTerm |-> "", quit |-> FALSE, panic |-> FALSE]

max(a, b) == IF a > b THEN a ELSE b
min(a, b) == IF a < b THEN a ELSE b

\* strings.ToLower on ASCII
RECURSIVE ToLower(_)
ToLower(str) ==
    IF str = "" THEN ""
    ELSE LET upper == "ABCDEFGHIJKLMNOPQRSTUVWXYZ"
             lower == "abcdefghijklmnopqrstuvwxyz"
             c     == SubSeq(str, 1, 1)
             hits  == {i \in 1..Len(upper) : SubSeq(upper, i, i) = c}
         IN  (IF hits = {} THEN c
              ELSE LET i == CHOOSE i \in hits : TRUE IN SubSeq(lower, i, i))
             \o ToLower(SubSeq(str, 2, Len(str)))

\* the test of filterVariables on one variable
MatchesSearch(envVar, searchLower) ==
    \/ Contains(ToLower(envVar.Key), searchLower)
    \/ Contains(ToLower(envVar.Value), searchLower)
    \/ Contains(ToLower(envVar.Comment), searchLower)
    \/ Contains(ToLower(envVar.Section), searchLower)

\* ConfigEditorModel.filterVariables
filterVariables(m) ==
    LET searchLower == ToLower(m.searchTerm)
        keep(envVar) == MatchesSearch(envVar, searchLower)
        filtered == IF m.searchTerm = "" THEN m.Variables
                    ELSE SelectSeq(m.Variables, keep)
    IN  [m EXCEPT !.filteredVars = filtered,
                  !.cursor = IF m.cursor >= Len(filtered)
                             THEN max(0, Len(filtered) - 1) ELSE m.cursor]

\* EnvConfig.UpdateVariable: the first variable named key gets newValue
UpdateVariable(variables, key, newValue) ==
    LET hits == {i \in 1..Len(variables) : variables[i].Key = key}
    IN  IF hits = {} THEN variables
        ELSE LET i == CHOOSE i \in hits : \A j \in hits : i <= j
             IN  [variables EXCEPT ![i].Value = newValue]

\* str[:len(str)-1]
DropLast(str) == SubSeq(str, 1, Len(str) - 1)

\* ConfigEditorModel.handleNormalMode; filteredVars[cursor] outside the list
\* is a runtime panic
handleNormalMode(m, key, saveFails) ==
    LET len == Len(m.filteredVars)
    IN  IF key = "q" THEN [m EXCEPT !.quit = TRUE]
        ELSE IF key = "up"
        THEN (IF m.cursor > 0 THEN [m EXCEPT !.cursor = m.cursor - 1] ELSE m)
        ELSE IF key = "down"
        THEN (IF m.cursor < len - 1 THEN [m EXCEPT !.cursor = m.cursor + 1] ELSE m)
        ELSE IF key = "pgup" THEN [m EXCEPT !.cursor = max(0, m.cursor - 10)]
        ELSE IF key = "pgdown" THEN [m EXCEPT !.cursor = min(len - 1, m.cursor + 10)]
        ELSE IF key = "home" THEN [m EXCEPT !.cursor = 0]
        ELSE IF key = "end" THEN [m EXCEPT !.cursor = len - 1]
        ELSE IF key = "enter"
        THEN (IF len > 0
              THEN (IF m.cursor < 0 \/ m.cursor >= len
                    THEN [m EXCEPT !.editMode = TRUE, !.panic = TRUE]
                    ELSE [m EXCEPT !.editMode = TRUE,
                                   !.editingKey = m.filteredVars[m.cursor + 1].Key,
                                   !.editingValue = m.filteredVars[m.cursor + 1].Value])
              ELSE m)
        ELSE IF key = "/"
        THEN filterVariables([m EXCEPT !.searchMode = TRUE, !.searchTerm = ""])
        ELSE IF key = "s"
        THEN (IF saveFails THEN m ELSE [m EXCEPT !.originalVars = m.Variables])
        ELSE IF key = "r"
        THEN [m EXCEPT !.Variables = m.originalVars, !.filteredVars = m.originalVars]
        ELSE m

\* ConfigEditorModel.handleEditMode
handleEditMode(m, key) ==
    IF key = "enter"
    THEN [filterVariables([m EXCEPT !.Variables =
                UpdateVariable(m.Variables, m.editingKey, m.editingValue)])
            EXCEPT !.editMode = FALSE]
    ELSE IF key = "esc"
    THEN [m EXCEPT !.editMode = FALSE, !.editingValue = "", !.editingKey = ""]
    ELSE IF key = "backspace"
    THEN (IF Len(m.editingValue) > 0
          THEN [m EXCEPT !.editingValue = DropLast(m.editingValue)] ELSE m)
    ELSE IF key = "ctrl+u" THEN [m EXCEPT !.editingValue = ""]
    ELSE IF Len(key) = 1 THEN [m EXCEPT !.editingValue = m.editingValue \o key]
    ELSE m

\* ConfigEditorModel.handleSearchMode
handleSearchMode(m, key) ==
    IF key \in {"enter", "esc"} THEN [m EXCEPT !.searchMode = FALSE]
    ELSE IF key = "backspace"
    THEN (IF Len(m.searchTerm) > 0
          THEN filterVariables([m EXCEPT !.searchTerm = DropLast(m.searchTerm)]) ELSE m)
    ELSE IF key = "ctrl+u" THEN filterVariables([m EXCEPT !.searchTerm = ""])
    ELSE IF Len(key) = 1 THEN filterVariables([m EXCEPT !.searchTerm = m.searchTerm \o key])
    ELSE m

\* everything outside the editor
uneditored ==
    <<goos, goarch, faults, health, now, monitorVars, checkVars, installVars, outerVars>>

\* the program runs until "q" or a panic
EditorRuns == ~editor.quit /\ ~editor.panic

\* ConfigEditorModel.Update on a key in normal mode
NormalKey ==
    /\ EditorRuns /\ ~editor.editMode /\ ~editor.searchMode
    /\ \E key \in NormalKeys, ioError \in IOErrors :
          editor' = handleNormalMode(editor, key, ioError)
    /\ UNCHANGED uneditored

\* ConfigEditorModel.Update on a key in edit mode
EditKey ==
    /\ EditorRuns /\ editor.editMode
    /\ \E key \in FieldKeys :
          /\ key \in Chars => Len(editor.editingValue) < MaxTyped
          /\ editor' = handleEditMode(editor, key)
    /\ UNCHANGED uneditored

\* ConfigEditorModel.Update on a key in search mode
SearchKey ==
    /\ EditorRuns /\ ~editor.editMode /\ editor.searchMode
    /\ \E key \in FieldKeys :
          /\ key \in Chars => Len(editor.searchTerm) < MaxTyped
          /\ editor' = handleSearchMode(editor, key)
    /\ UNCHANGED uneditored

NextEditor == NormalKey \/ EditKey \/ SearchKey

(***************************************************************************)
(* The status monitor                                                      *)
(***************************************************************************)

\* the goroutines that call Start and Stop
MonitorCallers == {1, 2}

\* the Start and Stop calls made in one run
MaxMonitorCalls == 3

\* what checkStatus returns
Statuses == {"Unknown", "Error", "Up", "Starting", "Down"}

\* everything outside the status monitor
unmonitored ==
    <<goos, goarch, faults, health, now, editor, checkVars, installVars, outerVars>>

\* NewMonitor
InitMonitor ==
    /\ running = FALSE
    /\ loops = <<>>
    /\ callers = [c \in MonitorCallers |-> "idle"]
    /\ monitorCalls = 0
    /\ currentStatus = "Unknown"

\* Monitor.Start under the mutex: nothing to do when running, else running = true
MonitorStart(c) ==
    /\ callers[c] = "idle"
    /\ monitorCalls < MaxMonitorCalls
    /\ monitorCalls' = monitorCalls + 1
    /\ IF running
       THEN UNCHANGED <<running, callers>>
       ELSE /\ running' = TRUE
            /\ callers' = [callers EXCEPT ![c] = "start_go"]
    /\ UNCHANGED <<loops, currentStatus, unmonitored>>

\* Monitor.Start after the mutex: go m.monitorLoop()
MonitorStartGo(c) ==
    /\ callers[c] = "start_go"
    /\ loops' = Append(loops, "initial_check")
    /\ callers' = [callers EXCEPT ![c] = "idle"]
    /\ UNCHANGED <<running, monitorCalls, currentStatus, unmonitored>>

\* Monitor.Stop under the mutex: nothing to do when not running, else running = false
MonitorStop(c) ==
    /\ callers[c] = "idle"
    /\ monitorCalls < MaxMonitorCalls
    /\ monitorCalls' = monitorCalls + 1
    /\ IF ~running
       THEN UNCHANGED <<running, callers>>
       ELSE /\ running' = FALSE
            /\ callers' = [callers EXCEPT ![c] = "stop_send"]
    /\ UNCHANGED <<loops, currentStatus, unmonitored>>

\* Monitor.Stop after the mutex: the send on the unbuffered stopChan, with a
\* default case. A loop waiting in its select receives it and returns; with
\* no loop waiting the default case is taken and nothing is sent.
MonitorStopSend(c) ==
    /\ callers[c] = "stop_send"
    /\ callers' = [callers EXCEPT ![c] = "idle"]
    /\ IF \E l \in DOMAIN loops : loops[l] = "select"
       THEN \E l \in DOMAIN loops :
               /\ loops[l] = "select"
               /\ loops' = [loops EXCEPT ![l] = "exited"]
       ELSE UNCHANGED loops
    /\ UNCHANGED <<running, monitorCalls, currentStatus, unmonitored>>

\* Monitor.CheckNow: checkStatus, then currentStatus under the mutex
CheckNow == currentStatus' \in health

\* monitorLoop: the initial check
LoopInitialCheck(l) ==
    /\ l \in DOMAIN loops /\ loops[l] = "initial_check"
    /\ CheckNow
    /\ loops' = [loops EXCEPT ![l] = "select"]
    /\ UNCHANGED <<running, callers, monitorCalls, unmonitored>>

\* monitorLoop: the select receives from ticker.C
LoopTick(l) ==
    /\ l \in DOMAIN loops /\ loops[l] = "select"
    /\ loops' = [loops EXCEPT ![l] = "checking"]
    /\ UNCHANGED <<running, callers, monitorCalls, currentStatus, unmonitored>>

\* monitorLoop: the check of a tick, and back to the select
LoopCheck(l) ==
    /\ l \in DOMAIN loops /\ loops[l] = "checking"
    /\ CheckNow
    /\ loops' = [loops EXCEPT ![l] = "select"]
    /\ UNCHANGED <<running, callers, monitorCalls, unmonitored>>

\* a step of loop l
LoopStep(l) == LoopInitialCheck(l) \/ LoopTick(l) \/ LoopCheck(l)

\* a step of caller c inside a call
CallStep(c) == MonitorStartGo(c) \/ MonitorStopSend(c)

NextMonitor ==
    \/ \E c \in MonitorCallers : MonitorStart(c)
    \/ \E c \in MonitorCallers : MonitorStartGo(c)
    \/ \E c \in MonitorCallers : MonitorStop(c)
    \/ \E c \in MonitorCallers : MonitorStopSend(c)
    \/ \E l \in 1..MaxMonitorCalls : LoopInitialCheck(l)
    \/ \E l \in 1..MaxMonitorCalls : LoopTick(l)
    \/ \E l \in 1..MaxMonitorCalls : LoopCheck(l)

(***************************************************************************)
(* PerformUpdate up to the install strategy                                *)
(***************************************************************************)

\* the sentinel errors of package context, by their messages
Canceled         == "context canceled"
DeadlineExceeded == "context deadline exceeded"

\* what client.Do fails with: a *url.Error around the cause, `Get "<url>": <cause>`
UrlError(URL, cause) == "Get \"" \o URL \o "\": " \o cause

\* PerformUpdate before the install: the error it returns, or the binary it extracted
Prepared(req, os, arch) ==
    IF req.url = ""
    THEN [ok |-> FALSE, err |-> "no download URL available for this platform", data |-> EmptyData]
    ELSE IF req.exe = "executable_err"
    THEN [ok |-> FALSE, err |-> "failed to get current executable path", data |-> EmptyData]
    ELSE IF req.exe = "symlink_err"
    THEN [ok |-> FALSE, err |-> "failed to resolve executable path", data |-> EmptyData]
    ELSE IF req.resp.neterr
    THEN [ok |-> FALSE,
          err |-> "failed to download update: " \o UrlError(req.url, req.resp.cause),
          data |-> EmptyData]
    ELSE IF req.resp.StatusCode # 200
    THEN [ok |-> FALSE, err |-> "download failed with status", data |-> EmptyData]
    ELSE LET x == extractBinaryFromArchive(req.resp.Body, req.url, os, arch)
         IN  IF ~x.ok
             THEN [ok |-> FALSE, err |-> "failed to extract binary from archive: " \o x.err,
                   data |-> EmptyData]
             ELSE x

(***************************************************************************)
(* Inputs                                                                  *)
(***************************************************************************)

\* (runtime.GOOS, runtime.GOARCH) of the builds the model runs
Platforms ==
    {<<"linux", "amd64">>, <<"linux", "386">>, <<"linux", "riscv64">>,
     <<"darwin", "arm64">>, <<"windows", "amd64">>, <<"freebsd", "amd64">>}

File(name, id, size) == [Name |-> name, Typeflag |-> "reg", Data |-> [id |-> id, size |-> size]]
Dir(name)            == [Name |-> name, Typeflag |-> "dir", Data |-> EmptyData]

Archive(format, entries) ==
    [format |-> format, stream |-> [id |-> "archive", size |-> 3000], entries |-> entries]
RawStream(id, size) ==
    [format |-> "raw", stream |-> [id |-> id, size |-> size], entries |-> <<>>]

\* the bodies a download answers with
Bodies ==
    {Archive("tar.gz", <<Dir("dist/"), File("dist/README.md", "DOC", 2000),
                         File("dist/ddalab-launcher-linux-amd64", "NEW", 2048)>>),
     Archive("tar.gz", <<File("app-linux-amd64", "NEW", 1024)>>),
     Archive("tar.gz", <<File("app-linux-amd64", "TINY", 10)>>),
     Archive("tar.gz", <<File("app-darwin-arm64", "TINY", 1023)>>),
     Archive("tar.gz", <<File("README.md", "DOC", 2000)>>),
     Archive("tar.gz", <<File("linux-386/launcher", "NEW", 2048)>>),
     Archive("zip",    <<File("ddalab-launcher-windows-amd64.exe", "NEW", 2048)>>),
     Archive("zip",    <<File("launcher.exe", "TINY", 500)>>),
     Archive("tar.gz", <<File("app-linux-amd64", "EMPTY", 0),
                         File("ddalab-launcher-linux-amd64", "NEW", 2048)>>),
     Archive("tar.gz", <<File("bin/launcher", "OTHER", 2048)>>),
     Archive("zip",    <<File("windows-arm64/launcher.exe", "OTHER", 2048),
                         File("windows-amd64/launcher.exe", "NEW", 2048)>>),
     Archive("zip",    <<File("docs/README.txt", "DOC", 2000)>>),
     RawStream("NEW", 2048),
     RawStream("TINY", 10)}

\* client.Do returned an error: the connection failed, or ctx ended the request
NetError(cause) ==
    [neterr |-> TRUE, cause |-> cause, StatusCode |-> 0, Body |-> RawStream("empty", 0)]

Responses ==
    {NetError(cause) : cause \in {"connection refused", Canceled, DeadlineExceeded}}
    \cup {[neterr |-> FALSE, cause |-> "", StatusCode |-> 404, Body |-> RawStream("HTML", 1500)]}
    \cup {[neterr |-> FALSE, cause |-> "", StatusCode |-> 200, Body |-> b] : b \in Bodies}

DownloadURLs ==
    {"", "https://dl/ddalab-launcher-linux-amd64.tar.gz",
     "https://dl/ddalab-launcher-windows-amd64.zip",
     "https://dl/ddalab-launcher-linux-amd64"}

\* what PerformUpdate is called with and what its environment answers
Requests ==
    {[url |-> u, exe |-> "ok", resp |-> r] : u \in DownloadURLs, r \in Responses}
    \cup {[url |-> "https://dl/ddalab-launcher-linux-amd64.tar.gz", exe |-> e,
           resp |-> NetError("connection refused")] :
             e \in {"executable_err", "symlink_err"}}

NoRequest == [none |-> TRUE]

(***************************************************************************)
(* PerformUpdate and the POSIX strategy, one action per step               *)
(***************************************************************************)

IsWindows == goos = "windows"

Fail(p, step) == failedAt' = [failedAt EXCEPT ![p] = @ \cup {step}]

\* PerformUpdate creating the temporary file before it looks at its request
PerformUpdateOn_TempFirst(p, reqs) ==
    /\ pc[p] = "idle"
    /\ \E req \in reqs :
        LET prep == Prepared(req, goos, goarch)
        IN  /\ request' = [request EXCEPT ![p] = req]
            /\ fs' = [fs EXCEPT ![TempPath(p)] = [data |-> EmptyData, mode |-> Mode0600]]
            /\ IF prep.ok
               THEN /\ updateBody' = [updateBody EXCEPT ![p] = prep.data]
                    /\ pc' = [pc EXCEPT ![p] = IF IsWindows THEN "win_apply"
                                                ELSE "unix_apply"]
                    /\ UNCHANGED err
               ELSE /\ err' = [err EXCEPT ![p] = prep.err]
                    /\ pc' = [pc EXCEPT ![p] = "returned"]
                    /\ UNCHANGED updateBody
    /\ UNCHANGED <<envVars, checkVars, failedAt, script>>

\* PerformUpdate down to the call of the install strategy, on one of reqs
PerformUpdateOn(p, reqs) ==
    /\ pc[p] = "idle"
    /\ \E req \in reqs :
        LET prep == Prepared(req, goos, goarch)
        IN  /\ request' = [request EXCEPT ![p] = req]
            /\ IF prep.ok
               THEN /\ updateBody' = [updateBody EXCEPT ![p] = prep.data]
                    /\ pc' = [pc EXCEPT ![p] = IF IsWindows THEN "win_apply"
                                                ELSE "unix_create_temp"]
                    /\ UNCHANGED err
               ELSE /\ err' = [err EXCEPT ![p] = prep.err]
                    /\ pc' = [pc EXCEPT ![p] = "returned"]
                    /\ UNCHANGED updateBody
    /\ UNCHANGED <<envVars, checkVars, fs, failedAt, script>>

\* Updater.PerformUpdate, called with any URL
PerformUpdate(p) == PerformUpdateOn(p, Requests) /\ UNCHANGED outerVars

\* os.CreateTemp(tempDir, "launcher-update-*")
UnixCreateTemp(p) ==
    /\ pc[p] = "unix_create_temp"
    /\ \E ioError \in IOErrors :
        IF ~ioError
        THEN /\ fs' = [fs EXCEPT ![TempPath(p)] = [data |-> EmptyData, mode |-> Mode0600]]
             /\ pc' = [pc EXCEPT ![p] = "unix_apply"]
             /\ UNCHANGED <<err, failedAt>>
        ELSE /\ err' = [err EXCEPT ![p] = "failed to create temporary file"]
             /\ pc' = [pc EXCEPT ![p] = "returned"]
             /\ Fail(p, "create_temp")
             /\ UNCHANGED fs
    /\ UNCHANGED <<envVars, outerVars, checkVars, updateBody, request, script>>

\* update.Apply(updateBody, update.Options{TargetPath: tempPath})
UnixApply(p) ==
    /\ pc[p] = "unix_apply"
    /\ \E ioError \in IOErrors, m \in ApplyModes :
        IF ~ioError /\ Exists(fs, TempPath(p))
        THEN /\ fs' = [fs EXCEPT ![TempPath(p)] = [data |-> updateBody[p], mode |-> m]]
             /\ pc' = [pc EXCEPT ![p] = "unix_chmod"]
             /\ UNCHANGED <<err, failedAt>>
        ELSE /\ err' = [err EXCEPT ![p] = "failed to apply update to temporary file"]
             /\ pc' = [pc EXCEPT ![p] = "unix_cleanup"]
             /\ Fail(p, "apply")
             /\ UNCHANGED fs
    /\ UNCHANGED <<envVars, outerVars, checkVars, updateBody, request, script>>

\* os.Chmod leaving the mode update.Apply gave the file
UnixChmod_ModeKept(p) ==
    /\ pc[p] = "unix_chmod"
    /\ \E ioError \in IOErrors :
        IF ~ioError /\ Exists(fs, TempPath(p))
        THEN /\ pc' = [pc EXCEPT ![p] = "unix_backup"]
             /\ UNCHANGED <<fs, err, failedAt>>
        ELSE /\ err' = [err EXCEPT ![p] = "failed to make temporary file executable"]
             /\ pc' = [pc EXCEPT ![p] = "unix_cleanup"]
             /\ Fail(p, "chmod")
             /\ UNCHANGED fs
    /\ UNCHANGED <<envVars, outerVars, checkVars, updateBody, request, script>>

\* os.Chmod with its error dropped
UnixChmod_ErrorIgnored(p) ==
    /\ pc[p] = "unix_chmod"
    /\ \E ioError \in IOErrors :
        IF ~ioError /\ Exists(fs, TempPath(p))
        THEN /\ fs' = [fs EXCEPT ![TempPath(p)].mode = Mode0755]
             /\ UNCHANGED failedAt
        ELSE /\ Fail(p, "chmod")
             /\ UNCHANGED fs
    /\ pc' = [pc EXCEPT ![p] = "unix_backup"]
    /\ UNCHANGED <<envVars, outerVars, checkVars, updateBody, request, script, err>>

\* os.Chmod(tempPath, 0755)
UnixChmod(p) ==
    /\ pc[p] = "unix_chmod"
    /\ \E ioError \in IOErrors :
        IF ~ioError /\ Exists(fs, TempPath(p))
        THEN /\ fs' = [fs EXCEPT ![TempPath(p)].mode = Mode0755]
             /\ pc' = [pc EXCEPT ![p] = "unix_backup"]
             /\ UNCHANGED <<err, failedAt>>
        ELSE /\ err' = [err EXCEPT ![p] = "failed to make temporary file executable"]
             /\ pc' = [pc EXCEPT ![p] = "unix_cleanup"]
             /\ Fail(p, "chmod")
             /\ UNCHANGED fs
    /\ UNCHANGED <<envVars, outerVars, checkVars, updateBody, request, script>>

\* os.Rename(currentExe, backupPath)
UnixBackup(p) ==
    /\ pc[p] = "unix_backup"
    /\ \E ioError \in IOErrors :
        IF ~ioError /\ Exists(fs, CurrentExe)
        THEN /\ fs' = Rename(fs, CurrentExe, BackupPath)
             /\ pc' = [pc EXCEPT ![p] = "unix_move"]
             /\ UNCHANGED <<err, failedAt>>
        ELSE /\ err' = [err EXCEPT ![p] = "failed to backup current binary"]
             /\ pc' = [pc EXCEPT ![p] = "unix_cleanup"]
             /\ Fail(p, "backup")
             /\ UNCHANGED fs
    /\ UNCHANGED <<envVars, outerVars, checkVars, updateBody, request, script>>

\* the new binary copied over the executable path instead of renamed: a failed
\* copy leaves a truncated file
UnixMoveIntoPlace_Copy(p) ==
    /\ pc[p] = "unix_move"
    /\ \E ioError \in IOErrors :
        IF ~ioError /\ Exists(fs, TempPath(p))
        THEN /\ fs' = Rename(fs, TempPath(p), CurrentExe)
             /\ pc' = [pc EXCEPT ![p] = "unix_remove_backup"]
             /\ UNCHANGED <<err, failedAt>>
        ELSE /\ err' = [err EXCEPT ![p] = "failed to move new binary into place"]
             /\ pc' = [pc EXCEPT ![p] = "unix_restore"]
             /\ Fail(p, "move")
             /\ fs' = [fs EXCEPT ![CurrentExe] =
                          [data |-> [id |-> updateBody[p].id, size |-> 0], mode |-> Mode0755]]
    /\ UNCHANGED <<envVars, outerVars, checkVars, updateBody, request, script>>

\* os.Rename(tempPath, currentExe)
UnixMoveIntoPlace(p) ==
    /\ pc[p] = "unix_move"
    /\ \E ioError \in IOErrors :
        IF ~ioError /\ Exists(fs, TempPath(p))
        THEN /\ fs' = Rename(fs, TempPath(p), CurrentExe)
             /\ pc' = [pc EXCEPT ![p] = "unix_remove_backup"]
             /\ UNCHANGED <<err, failedAt>>
        ELSE /\ err' = [err EXCEPT ![p] = "failed to move new binary into place"]
             /\ pc' = [pc EXCEPT ![p] = "unix_restore"]
             /\ Fail(p, "move")
             /\ UNCHANGED fs
    /\ UNCHANGED <<envVars, outerVars, checkVars, updateBody, request, script>>

\* the rollback left out: the backup is deleted instead of renamed back
UnixRestoreBackup_Removed(p) ==
    /\ pc[p] = "unix_restore"
    /\ fs' = Remove(fs, BackupPath)
    /\ pc' = [pc EXCEPT ![p] = "unix_cleanup"]
    /\ UNCHANGED <<envVars, outerVars, checkVars, updateBody, request, script, err, failedAt>>

\* _ = os.Rename(backupPath, currentExe), then the return of the move error
UnixRestoreBackup(p) ==
    /\ pc[p] = "unix_restore"
    /\ \E ioError \in IOErrors :
        IF ~ioError /\ Exists(fs, BackupPath)
        THEN /\ fs' = Rename(fs, BackupPath, CurrentExe)
             /\ UNCHANGED failedAt
        ELSE /\ Fail(p, "restore")
             /\ UNCHANGED fs
    /\ pc' = [pc EXCEPT ![p] = "unix_cleanup"]
    /\ UNCHANGED <<envVars, outerVars, checkVars, updateBody, request, script, err>>

\* the removal of the backup left out
UnixRemoveBackup_Skipped(p) ==
    /\ pc[p] = "unix_remove_backup"
    /\ pc' = [pc EXCEPT ![p] = "unix_cleanup"]
    /\ UNCHANGED <<envVars, outerVars, checkVars, updateBody, request, script, err, failedAt, fs>>

\* _ = os.Remove(backupPath), then return nil
UnixRemoveBackup(p) ==
    /\ pc[p] = "unix_remove_backup"
    /\ \E ioError \in IOErrors :
        IF ~Exists(fs, BackupPath) THEN UNCHANGED <<fs, failedAt>>
        ELSE IF ~ioError
        THEN /\ fs' = Remove(fs, BackupPath)
             /\ UNCHANGED failedAt
        ELSE /\ Fail(p, "remove_backup")
             /\ UNCHANGED fs
    /\ pc' = [pc EXCEPT ![p] = "unix_cleanup"]
    /\ UNCHANGED <<envVars, outerVars, checkVars, updateBody, request, script, err>>

\* the deferred removal left out
UnixCleanup_Skipped(p) ==
    /\ pc[p] = "unix_cleanup"
    /\ pc' = [pc EXCEPT ![p] = "returned"]
    /\ UNCHANGED <<envVars, outerVars, checkVars, updateBody, request, script, err, failedAt, fs>>

\* the deferred _ = os.Remove(tempPath), run on every return after CreateTemp
UnixCleanup(p) ==
    /\ pc[p] = "unix_cleanup"
    /\ \E ioError \in IOErrors :
        IF ~Exists(fs, TempPath(p)) THEN UNCHANGED <<fs, failedAt>>
        ELSE IF ~ioError
        THEN /\ fs' = Remove(fs, TempPath(p))
             /\ UNCHANGED failedAt
        ELSE /\ Fail(p, "cleanup_temp")
             /\ UNCHANGED fs
    /\ pc' = [pc EXCEPT ![p] = "returned"]
    /\ UNCHANGED <<envVars, outerVars, checkVars, updateBody, request, script, err>>

(***************************************************************************)
(* The Windows strategy and the batch script it starts                     *)
(***************************************************************************)

\* update.Apply(updateBody, update.Options{TargetPath: newPath}): Apply
\* replaces a file that exists; it moves the target aside before it moves the
\* new file in, and fails where there is no target to move
WinApply(p) ==
    /\ pc[p] = "win_apply"
    /\ \E ioError \in IOErrors, m \in ApplyModes :
        IF ~ioError /\ Exists(fs, NewPath)
        THEN /\ fs' = [fs EXCEPT ![NewPath] = [data |-> updateBody[p], mode |-> m]]
             /\ pc' = [pc EXCEPT ![p] = "win_write_batch"]
             /\ UNCHANGED <<err, failedAt>>
        ELSE /\ err' = [err EXCEPT ![p] = "failed to apply update to .new file"]
             /\ pc' = [pc EXCEPT ![p] = "win_cleanup_new"]
             /\ Fail(p, "apply_new")
             /\ UNCHANGED fs
    /\ UNCHANGED <<envVars, outerVars, checkVars, updateBody, request, script>>

\* os.WriteFile(batchPath, []byte(batchContent), 0644)
WinWriteBatch(p) ==
    /\ pc[p] = "win_write_batch"
    /\ \E ioError \in IOErrors :
        IF ~ioError
        THEN /\ fs' = [fs EXCEPT ![BatchPath] = [data |-> BatchContent, mode |-> Mode0644]]
             /\ pc' = [pc EXCEPT ![p] = "win_start_batch"]
             /\ UNCHANGED <<err, failedAt>>
        ELSE /\ err' = [err EXCEPT ![p] = "failed to create update batch script"]
             /\ pc' = [pc EXCEPT ![p] = "win_cleanup_new"]
             /\ Fail(p, "write_batch")
             /\ UNCHANGED fs
    /\ UNCHANGED <<envVars, outerVars, checkVars, updateBody, request, script>>

\* exec.Command("cmd", "/c", "start", "/b", batchPath).Start()
WinStartBatch(p) ==
    /\ pc[p] = "win_start_batch"
    /\ \E ioError \in IOErrors :
        IF ~ioError
        THEN /\ script' = "timeout"
             /\ UNCHANGED <<err, failedAt>>
        ELSE /\ err' = [err EXCEPT ![p] = "failed to start update batch script"]
             /\ Fail(p, "start_batch")
             /\ UNCHANGED script
    /\ pc' = [pc EXCEPT ![p] = "win_cleanup_new"]
    /\ UNCHANGED <<envVars, outerVars, checkVars, updateBody, request, fs>>

\* the deferred function, first statement: _ = os.Remove(newPath)
WinCleanupNew(p) ==
    /\ pc[p] = "win_cleanup_new"
    /\ \E ioError \in IOErrors :
        IF ~Exists(fs, NewPath) THEN UNCHANGED <<fs, failedAt>>
        ELSE IF ~ioError
        THEN /\ fs' = Remove(fs, NewPath)
             /\ UNCHANGED failedAt
        ELSE /\ Fail(p, "cleanup_new")
             /\ UNCHANGED fs
    /\ pc' = [pc EXCEPT ![p] = "win_cleanup_batch"]
    /\ UNCHANGED <<envVars, outerVars, checkVars, updateBody, request, script, err>>

\* the deferred function, second statement: _ = os.Remove(batchPath)
WinCleanupBatch(p) ==
    /\ pc[p] = "win_cleanup_batch"
    /\ \E ioError \in IOErrors :
        IF ~Exists(fs, BatchPath) THEN UNCHANGED <<fs, failedAt>>
        ELSE IF ~ioError
        THEN /\ fs' = Remove(fs, BatchPath)
             /\ UNCHANGED failedAt
        ELSE /\ Fail(p, "cleanup_batch")
             /\ UNCHANGED fs
    /\ pc' = [pc EXCEPT ![p] = "returned"]
    /\ UNCHANGED <<envVars, outerVars, checkVars, updateBody, request, script, err>>

\* the steps of a call between which the process can be killed
InstallSteps ==
    {"unix_create_temp", "unix_apply", "unix_chmod", "unix_backup", "unix_move",
     "unix_restore", "unix_remove_backup", "unix_cleanup",
     "win_apply", "win_write_batch", "win_start_batch", "win_cleanup_new",
     "win_cleanup_batch"}

\* the process is killed between two steps: nothing more runs, deferred calls included
Kill(p) ==
    /\ pc[p] \in InstallSteps
    /\ pc' = [pc EXCEPT ![p] = "killed"]
    /\ UNCHANGED <<envVars, outerVars, checkVars, fs, updateBody, err, failedAt, request, script>>

\* cmd.exe reads a batch file line by line from disk: a line runs only while
\* the file is still there
ScriptLine(line, next, after) ==
    /\ script = line
    /\ IF Exists(fs, BatchPath)
       THEN /\ script' = next
            /\ fs' = after
       ELSE /\ script' = "aborted"
            /\ UNCHANGED fs
    /\ UNCHANGED <<envVars, outerVars, checkVars, pc, updateBody, err, failedAt, request>>

\* timeout /t 2 /nobreak >nul
ScriptTimeout == ScriptLine("timeout", "move_aside", fs)

\* move "<exe>" "<exe>.old"
ScriptMoveAside ==
    ScriptLine("move_aside", "move_new",
               IF Exists(fs, CurrentExe) THEN Rename(fs, CurrentExe, OldPath) ELSE fs)

\* move "<exe>.new" "<exe>"
ScriptMoveNew ==
    ScriptLine("move_new", "del_old",
               IF Exists(fs, NewPath) THEN Rename(fs, NewPath, CurrentExe) ELSE fs)

\* del "<exe>.old"
ScriptDelOld == ScriptLine("del_old", "del_self", Remove(fs, OldPath))

\* del "%~f0"
ScriptDelSelf == ScriptLine("del_self", "done", Remove(fs, BatchPath))

(***************************************************************************)
(* CheckForUpdates                                                         *)
(***************************************************************************)

Asset(name) ==
    [Name |-> name, BrowserDownloadURL |-> "https://dl/" \o name, Size |-> 6000000 + Len(name)]

\* the asset list of the usual release, and lists that lack a platform
AssetLists ==
    {<<Asset("app-windows-amd64.zip"), Asset("app-linux-amd64.tar.gz"),
       Asset("app-darwin-arm64.tar.gz")>>,
     <<Asset("app-linux-amd64.zip"), Asset("app-linux-arm64.tar.gz"),
       Asset("app-windows-amd64.tar.gz")>>,
     <<>>}

\* version strings, well-formed and not
VersionStrings ==
    {"v2.0.0", "2.0.0", "v1.5.0", "1.5.0", "0.0.1", "v0.0.1", "0.0.0", "v0.0.0",
     "dev", "vdev", "1.10.0", "1.9.0", "1.5.0-rc.1", "1.5.0-alpha", "0.0.0-rc1",
     "1.5.0+build5", "1.5", "", "01.5.0", "vv1.5.0", "1.x.0", "latest"}

Release(tag, assets) ==
    [TagName |-> tag, Body |-> "notes", Assets |-> assets, PublishedAt |-> "2024-01-01"]

Releases ==
    {Release(t, CHOOSE a \in AssetLists : Len(a) = 3 /\ a[1].Name = "app-windows-amd64.zip") :
        t \in VersionStrings}
    \cup {Release("v2.0.0", a) : a \in AssetLists}

\* what the registry answers to the GET of CheckForUpdates
CheckResponses ==
    {[kind |-> "neterr", cause |-> c, release |-> NoRelease] :
        c \in {"connection refused", Canceled, DeadlineExceeded}}
    \cup {[kind |-> k, cause |-> "", release |-> NoRelease] : k \in {"status", "badjson"}}
    \cup {[kind |-> "ok", cause |-> "", release |-> r] : r \in Releases}

\* the number of CheckForUpdates calls of one run
MaxChecks == 1

\* the URL of the latest release
UpdateCheckURL == "https://api.github.com/repos/sdraeger/DDALAB-launcher/releases/latest"

\* Updater.CheckForUpdates, answered by one of resps
CheckForUpdatesOn(resps) ==
    /\ checks' = checks + 1
    /\ checkTimes' = Append(checkTimes, now)
    /\ \E resp \in resps :
        IF resp.kind = "neterr"
        THEN /\ checkErr' = "failed to check for updates: " \o UrlError(UpdateCheckURL, resp.cause)
             /\ updateInfo' = NoInfo
             /\ release' = NoRelease
        ELSE IF resp.kind = "status"
        THEN /\ checkErr' = "GitHub API returned status"
             /\ updateInfo' = NoInfo
             /\ release' = NoRelease
        ELSE IF resp.kind = "badjson"
        THEN /\ checkErr' = "failed to decode release info"
             /\ updateInfo' = NoInfo
             /\ release' = NoRelease
        ELSE LET r == CheckResult(currentVersion, resp.release, goos, goarch)
             IN  /\ checkErr' = r.err
                 /\ updateInfo' = r.info
                 /\ release' = resp.release
    /\ UNCHANGED <<worldVars, currentVersion, installVars>>

\* Updater.CheckForUpdates
CheckForUpdates ==
    /\ checks < MaxChecks
    /\ CheckForUpdatesOn(CheckResponses)
    /\ UNCHANGED <<monitorVars, outerVars>>

\* the largest small version number drawn for ParseVersion
MaxPart == 2

\* version numbers: the small ones, and one-digit and two-digit neighbours
VersionParts == (0..MaxPart) \cup {9, 10}

\* a major.minor.patch version string, with or without the "v" prefix
PlainVersion(prefix, major, minor, patch) ==
    [triple |-> <<major, minor, patch>>,
     str    |-> prefix \o FormatUint(major) \o "." \o FormatUint(minor)
                       \o "." \o FormatUint(patch)]

PlainVersions ==
    {PlainVersion(prefix, major, minor, patch) :
        prefix \in {"", "v"}, major \in VersionParts,
        minor \in VersionParts, patch \in VersionParts}

NoParsed == [none |-> TRUE]

\* Updater.ParseVersion, called on two version strings
ParseVersion ==
    /\ parsed = NoParsed
    /\ \E a \in PlainVersions, b \in PlainVersions :
        parsed' = [none |-> FALSE, a |-> a, b |-> b,
                   va |-> parseVersion(a.str), vb |-> parseVersion(b.str)]
    /\ UNCHANGED <<envVars, callerVars, checkVars, installVars>>

(***************************************************************************)
(* The callers: the terminal launcher's main loop and the GUI              *)
(***************************************************************************)

\* the number of interruptible operations the user starts in one run of the
\* launcher
MaxOperations == 2

\* interrupt.IsInterruptError: the error IS one of the two sentinels
IsInterruptError(e) == e = Canceled \/ e = DeadlineExceeded

\* what an HTTP request under the caller's context can fail with: an ended
\* context ends the request with the context's error
CtxAllows(cause) ==
    IF ctx = "cancelled" THEN cause = Canceled
    ELSE IF ctx = "deadline" THEN cause = DeadlineExceeded
    ELSE cause \notin {Canceled, DeadlineExceeded}

\* the releases the callers' checks are answered with
CallerReleases ==
    {Release("v2.0.0", a) : a \in AssetLists}
    \cup {Release(t, CHOOSE a \in AssetLists :
                        Len(a) = 3 /\ a[1].Name = "app-windows-amd64.zip") :
            t \in {"v1.5.0", "latest"}}

CallerCheckResponses ==
    {resp \in CheckResponses :
        /\ CtxAllows(resp.cause)
        /\ resp.kind = "ok" => resp.release \in CallerReleases}

\* PerformUpdate(ctx, URL) and what its environment answers
CallerRequests(URL) ==
    {[url |-> URL, exe |-> "ok", resp |-> r] : r \in {x \in Responses : CtxAllows(x.cause)}}

\* the handleSignals goroutines of a handler, counted by where they are:
\* started and before signal.Notify, waiting on sigCh, holding a signal and
\* before the read of h.active, before cancel() with the cancel function of the
\* running operation (cancelling) or of an operation that has ended since
\* (stale), and before the send on notifyCh
ListenerStates == {"starting", "waiting", "signalled", "cancelling", "stale", "sending"}

NoListeners == [st \in ListenerStates |-> 0]

NoHandler == [active |-> FALSE, notify |-> 0, listeners |-> NoListeners]

\* the goroutines of a handler that have called signal.Notify and not yet
\* signal.Stop
Registered(h) ==
    h.listeners["waiting"] + h.listeners["signalled"] + h.listeners["cancelling"]
      + h.listeners["stale"] + h.listeners["sending"]

\* the handleSignals goroutines of a handler
Listening(h) == h.listeners["starting"] + Registered(h)

\* one goroutine of a handler moves on
Moved(h, from, to) ==
    [h EXCEPT !.listeners =
        [st \in ListenerStates |->
            IF st = from THEN h.listeners[st] - 1
            ELSE IF st = to THEN h.listeners[st] + 1
            ELSE h.listeners[st]]]

\* Handler.WithCancellableContext: h.cancel and h.active are set under the
\* lock and a handleSignals goroutine is started; the cancel function a
\* goroutine read before belongs to a context that has ended
WithCancellableContext ==
    /\ Listening(handler) < MaxOperations
    /\ ctx' = "live"
    /\ handler' = [handler EXCEPT
         !.active = TRUE,
         !.listeners = [@ EXCEPT !["starting"] = @ + 1,
                                 !["stale"] = @ + handler.listeners["cancelling"],
                                 !["cancelling"] = 0]]

\* handleSignals: signal.Notify(sigCh, os.Interrupt, syscall.SIGTERM)
ListenerNotify ==
    /\ handler.listeners["starting"] > 0
    /\ handler' = Moved(handler, "starting", "waiting")
    /\ UNCHANGED <<envVars, parsed, front, at, choice, ctx, fnErr, events, config,
                   configFile, checkVars, installVars>>

\* the process ends: its goroutines end with it
Goroutines ==
    /\ loops' = [l \in DOMAIN loops |-> "exited"]
    /\ handler' = [handler EXCEPT !.listeners = NoListeners]

\* runMainLoop returns: the deferred statusMonitor.Stop() of a monitor that
\* runs, and the end of the process
MainLoopReturns ==
    /\ running' = FALSE
    /\ Goroutines

\* an interrupt signal reaches the terminal launcher: every goroutine waiting
\* on its sigCh receives it. While no goroutine is between signal.Notify and
\* signal.Stop, be it that none was started or that the one started has not
\* come to signal.Notify, the signal has its default effect and ends the
\* process, in the middle of the install where one runs. A signal that finds
\* goroutines past the receive only fills a sigCh nobody reads again.
Signal ==
    /\ front = "terminal"
    /\ IF handler.listeners["waiting"] > 0
       THEN /\ handler' = [handler EXCEPT
                 !.listeners = [@ EXCEPT !["signalled"] = @ + handler.listeners["waiting"],
                                         !["waiting"] = 0]]
            /\ UNCHANGED <<at, pc, loops>>
       ELSE /\ at \notin {"exited", "failed", "killed"} /\ Registered(handler) = 0
            /\ at' = "killed"
            /\ pc' = [pc EXCEPT ![1] = IF @ \in {"idle", "returned"} THEN @ ELSE "killed"]
            /\ Goroutines
    /\ UNCHANGED <<worldVars, running, callers, monitorCalls, currentStatus, parsed, front,
                   choice, ctx, fnErr, events, config, configFile, checkVars,
                   fs, updateBody, err, failedAt, request, script>>

\* handleSignals after <-sigCh: h.active and h.cancel read under the read
\* lock; with no operation active the goroutine ends
ListenerRead ==
    /\ handler.listeners["signalled"] > 0
    /\ handler' = IF handler.active
                  THEN Moved(handler, "signalled", "cancelling")
                  ELSE Moved(handler, "signalled", "none")
    /\ UNCHANGED <<envVars, parsed, front, at, choice, ctx, fnErr, events, config,
                   configFile, checkVars, installVars>>

\* handleSignals: cancel(), the function read under the lock. It cancels the
\* context of the operation it was read in; on a context that has ended it
\* does nothing.
ListenerCancel ==
    /\ \E held \in {"cancelling", "stale"} :
        /\ handler.listeners[held] > 0
        /\ handler' = Moved(handler, held, "sending")
        /\ ctx' = IF held = "cancelling" /\ ctx = "live" THEN "cancelled" ELSE ctx
    /\ UNCHANGED <<envVars, parsed, front, at, choice, fnErr, events, config,
                   configFile, checkVars, installVars>>

\* handleSignals: the send on notifyCh, dropped where the channel is full,
\* and the end of the goroutine
ListenerSend ==
    /\ handler.listeners["sending"] > 0
    /\ handler' = [Moved(handler, "sending", "none") EXCEPT !.notify = 1]
    /\ UNCHANGED <<envVars, parsed, front, at, choice, ctx, fnErr, events, config,
                   configFile, checkVars, installVars>>

\* the call frame of PerformUpdate is gone once the caller has its result
FrameDropped ==
    /\ pc' = [pc EXCEPT ![1] = "idle"]
    /\ err' = [err EXCEPT ![1] = NoError]
    /\ failedAt' = [failedAt EXCEPT ![1] = {}]
    /\ updateBody' = [updateBody EXCEPT ![1] = EmptyData]
    /\ request' = [request EXCEPT ![1] = NoRequest]

\* the labels ShowMainMenuWithStatus returns for the options of
\* GetMainMenuOptions
MenuLabels ==
    {"Start DDALAB", "Stop DDALAB", "Restart DDALAB", "Check Status", "View Logs",
     "Bootstrap DDALAB", "Edit Configuration", "Configure Installation",
     "Backup Database", "Update DDALAB", "Check for Launcher Updates",
     "Uninstall DDALAB", "Exit"}

\* the errors the menu prompt returns
MenuErrors == {"^C", "interrupt", "^D"}

\* handleMenuChoice: the handler of a label, as the position at its start
Handlers ==
    [label \in {"Start DDALAB", "Stop DDALAB", "Restart DDALAB", "Check Status",
                "Edit Configuration", "Configure Installation", "Backup Database",
                "Update DDALAB", "Uninstall DDALAB"} |->
        CASE label = "Start DDALAB" -> "start"
          [] label = "Stop DDALAB" -> "stop"
          [] label = "Restart DDALAB" -> "restart"
          [] label = "Check Status" -> "status"
          [] label = "Edit Configuration" -> "edit"
          [] label = "Configure Installation" -> "configure"
          [] label = "Backup Database" -> "backup"
          [] label = "Update DDALAB" -> "update"
          [] label = "Uninstall DDALAB" -> "uninstall_confirm"]

\* one round of runMainLoop from ShowMainMenuWithStatus on: the end of the
\* loop, or handleMenuChoice down to the handler of the choice. The handlers
\* of "Check for Launcher Updates" and "View Logs" are one call of
\* executeWithInterrupt, followed here down to the call of fn; a label
\* without a case is an error, shown before the next round.
TerminalMenu(results) ==
    /\ front = "terminal" /\ at = "menu"
    /\ \E result \in results :
        /\ choice' = result
        /\ IF result \in {"^C", "interrupt", "Exit"}
           THEN /\ at' = "exited"
                /\ events' = <<"ShowInfo: Goodbye!">>
                /\ MainLoopReturns
                /\ UNCHANGED <<ctx, fnErr>>
           ELSE IF result \in MenuErrors
           THEN /\ at' = "failed"
                /\ events' = <<>>
                /\ MainLoopReturns
                /\ UNCHANGED <<ctx, fnErr>>
           ELSE IF result = "Check for Launcher Updates"
           THEN /\ checks < MaxOperations
                /\ WithCancellableContext
                /\ at' = "check"
                /\ fnErr' = NoError
                /\ events' = <<"ShowProgress: Checking for launcher updates">>
                /\ UNCHANGED <<running, loops>>
           ELSE IF result = "View Logs"
           THEN /\ WithCancellableContext
                /\ at' = "logs"
                /\ fnErr' = NoError
                /\ events' = <<"ShowProgress: Fetching DDALAB logs">>
                /\ UNCHANGED <<running, loops>>
           ELSE IF result \in DOMAIN Handlers
           THEN /\ at' = Handlers[result]
                /\ fnErr' = NoError
                /\ events' = <<>>
                /\ UNCHANGED <<ctx, handler, running, loops>>
           ELSE /\ at' = "menu"
                /\ fnErr' = "unknown menu choice: " \o result
                /\ events' = <<"ShowError: unknown menu choice: " \o result>>
                /\ UNCHANGED <<ctx, handler, running, loops>>
    /\ UNCHANGED <<worldVars, callers, monitorCalls, currentStatus, parsed, front,
                   config, configFile, checkVars, installVars>>

\* handleCheckUpdatesCommand from CheckForUpdates to the confirmation prompt
TerminalCheck ==
    /\ front = "terminal" /\ at = "check"
    /\ CheckForUpdatesOn(CallerCheckResponses)
    /\ IF checkErr' # NoError
       THEN /\ fnErr' = "failed to check for updates: " \o checkErr'
            /\ at' = "fn_returned"
            /\ UNCHANGED <<events, config, configFile>>
       ELSE /\ config' = [config EXCEPT !.LastUpdateCheck = now]
            /\ fnErr' = NoError
            /\ LET decision ==
                      IF ~updateInfo'.HasUpdate
                      THEN <<"ShowSuccess: You're running the latest version!">>
                      ELSE IF updateInfo'.DownloadURL = ""
                      THEN <<"ShowSuccess: A new version is available!",
                             "ShowWarning: No download available for your platform">>
                      ELSE <<"ShowSuccess: A new version is available!">>
               IN  \E ioError \in IOErrors :
                     /\ IF ~ioError
                        THEN /\ configFile' = config'
                             /\ events' = events \o decision
                        ELSE /\ configFile' = configFile
                             /\ events' = events
                                  \o <<"ShowWarning: Failed to save last update check time">>
                                  \o decision
            /\ at' = IF updateInfo'.HasUpdate /\ updateInfo'.DownloadURL # ""
                     THEN "confirm" ELSE "fn_returned"
    /\ UNCHANGED <<monitorVars, parsed, front, choice, ctx, handler>>

\* PerformUpdate follows whatever the answer
TerminalConfirm_Ignored ==
    /\ front = "terminal" /\ at = "confirm"
    /\ \E confirmed \in BOOLEAN :
        /\ events' = Append(events, IF confirmed THEN "ConfirmOperation: yes"
                                    ELSE "ConfirmOperation: no")
        /\ at' = "perform"
    /\ UNCHANGED <<envVars, parsed, front, choice, ctx, handler, fnErr, config,
                   configFile, checkVars, installVars>>

\* the answer to ConfirmOperation("download and install this update")
TerminalConfirm ==
    /\ front = "terminal" /\ at = "confirm"
    /\ \E confirmed \in BOOLEAN :
        IF confirmed
        THEN /\ events' = Append(events, "ConfirmOperation: yes")
             /\ at' = "perform"
        ELSE /\ events' = events \o <<"ConfirmOperation: no", "ShowInfo: Update cancelled">>
             /\ at' = "fn_returned"
    /\ UNCHANGED <<envVars, parsed, front, choice, ctx, handler, fnErr, config,
                   configFile, checkVars, installVars>>

\* performLauncherUpdate up to the call of PerformUpdate
TerminalPerform ==
    /\ front = "terminal" /\ at = "perform"
    /\ PerformUpdateOn(1, CallerRequests(updateInfo.DownloadURL))
    /\ events' = events \o <<"ShowProgress: Downloading update", "PerformUpdate">>
    /\ at' = "installing"
    /\ UNCHANGED <<parsed, front, choice, ctx, handler, fnErr, config, configFile>>

\* the platform-specific restart instruction of performLauncherUpdate
RestartNote ==
    IF goos = "windows"
    THEN "ShowInfo: Please close this window and start the launcher again."
    ELSE "ShowInfo: Please restart the launcher to use the new version."

\* performLauncherUpdate after PerformUpdate returned
TerminalUpdated ==
    /\ front = "terminal" /\ at = "installing" /\ pc[1] = "returned"
    /\ FrameDropped
    /\ at' = "fn_returned"
    /\ IF err[1] # NoError
       THEN /\ fnErr' = "failed to apply update: " \o err[1]
            /\ UNCHANGED <<events, config, configFile>>
       ELSE /\ fnErr' = NoError
            /\ config' = [config EXCEPT !.Version = updateInfo.LatestVersion]
            /\ LET shown == events \o
                      <<"ShowSuccess: Update completed successfully!",
                        RestartNote,
                        "config.Version = " \o updateInfo.LatestVersion>>
               IN  \E ioError \in IOErrors :
                     IF ~ioError
                     THEN configFile' = config' /\ events' = Append(shown, "Save")
                     ELSE /\ configFile' = configFile
                          /\ events' = Append(shown, "ShowWarning: Failed to save version info")
    /\ UNCHANGED <<envVars, parsed, front, choice, ctx, handler, checkVars, fs, script>>

\* the positions of executeWithInterrupt at its return statements, with the
\* deferred cancel still to run
ReturnPoints == {"return_nil", "return_err"}

\* executeWithInterrupt after fn returned, up to its return statement:
\* IsInterruptError(err), then WasInterrupted() taking what notifyCh holds
TerminalInterruptCheck ==
    /\ front = "terminal" /\ at = "fn_returned"
    /\ IF IsInterruptError(fnErr)
       THEN /\ events' = Append(events, "ShowWarning: Operation was cancelled")
            /\ at' = "return_nil"
            /\ UNCHANGED handler
       ELSE IF handler.notify = 1
       THEN /\ handler' = [handler EXCEPT !.notify = 0]
            /\ events' = Append(events,
                  "ShowWarning: Operation was interrupted but may have completed")
            /\ at' = "return_nil"
       ELSE /\ at' = "return_err"
            /\ UNCHANGED <<handler, events>>
    /\ UNCHANGED <<envVars, parsed, front, choice, ctx, fnErr, config, configFile,
                   checkVars, installVars>>

\* the caller of a handler with what the handler returned: runMainLoop shows
\* it and goes back to the menu; runFirstTimeSetup, which no menu choice
\* precedes, returns it to Run
HandlerReturns(e, shown) ==
    IF choice = ""
    THEN /\ at' = IF e # NoError THEN "run_err" ELSE "run_nil"
         /\ events' = shown
    ELSE /\ at' = "menu"
         /\ events' = Append(shown, IF e # NoError THEN "ShowError: " \o e
                                    ELSE "Operation completed successfully!")

\* the error of the action ends runMainLoop
TerminalFinish_Fatal ==
    /\ front = "terminal" /\ at \in ReturnPoints
    /\ handler' = [handler EXCEPT !.active = FALSE]
    /\ events' = events
    /\ ctx' = "none"
    /\ at' = IF fnErr # NoError THEN "failed" ELSE "menu"
    /\ UNCHANGED <<envVars, parsed, front, choice, fnErr, config, configFile,
                   checkVars, installVars>>

\* the deferred cancel of executeWithInterrupt, and its caller's caller with
\* the returned error
TerminalFinish ==
    /\ front = "terminal" /\ at \in ReturnPoints
    /\ handler' = [handler EXCEPT !.active = FALSE]
    /\ HandlerReturns(IF at = "return_err" THEN fnErr ELSE NoError, events)
    /\ ctx' = "none"
    /\ UNCHANGED <<envVars, parsed, front, choice, fnErr, config, configFile,
                   checkVars, installVars>>

\* what a call of the DDALAB API fails with, NoError where it succeeds: a
\* call under the operation's context fails with the context's error once the
\* context has ended
ApiCauses(underCtx) ==
    IF underCtx /\ ctx = "cancelled" THEN {Canceled}
    ELSE IF underCtx /\ ctx = "deadline" THEN {DeadlineExceeded}
    ELSE {NoError} \cup (IF faults THEN {"connection refused"} ELSE {})

\* the error each Commander method wraps the error of its API call in
CommanderErrors ==
    [op \in {"start", "stop", "restart", "logs", "backup", "update"} |->
        CASE op = "start" -> "failed to start DDALAB"
          [] op = "stop" -> "failed to stop DDALAB"
          [] op = "restart" -> "failed to restart DDALAB"
          [] op = "logs" -> "failed to get DDALAB logs"
          [] op = "backup" -> "failed to backup DDALAB"
          [] op = "update" -> "failed to update DDALAB"]

\* the error a Commander method returns
CommanderError(op, cause) ==
    IF cause = NoError THEN NoError ELSE CommanderErrors[op] \o ": " \o cause

\* Commander.StartWithContext, Stop, Restart, LogsWithContext, Backup and
\* UpdateWithContext: on success all but the logs set the last operation and
\* save the config, ignoring the error of Save
CommanderCall(op, cause) ==
    IF cause # NoError \/ op = "logs"
    THEN UNCHANGED <<config, configFile>>
    ELSE /\ config' = [config EXCEPT !.LastOperation = op]
         /\ \E ioError \in IOErrors :
              configFile' = IF ioError THEN configFile ELSE config'

\* Commander.IsRunning: its error, or whether DDALAB runs
IsRunningAnswers == {"running", "stopped"} \cup (IF faults THEN {"error"} ELSE {})

\* handleStartCommand down to the call of fn in executeWithInterrupt
handleStartCommand ==
    /\ front = "terminal" /\ at = "start"
    /\ \E answer \in IsRunningAnswers :
        IF answer = "running"
        THEN /\ fnErr' = NoError
             /\ HandlerReturns(NoError, Append(events, "ShowInfo: DDALAB is already running"))
             /\ UNCHANGED <<ctx, handler>>
        ELSE /\ WithCancellableContext
             /\ fnErr' = NoError
             /\ events' = events
                  \o (IF answer = "error"
                      THEN <<"ShowWarning: Could not check running status">> ELSE <<>>)
                  \o <<"ShowProgress: Starting DDALAB services">>
             /\ at' = "starting"
    /\ UNCHANGED <<envVars, parsed, front, choice, config, configFile, checkVars,
                   installVars>>

\* handleStartCommand: the function executeWithInterrupt calls
TerminalStart ==
    /\ front = "terminal" /\ at = "starting"
    /\ \E cause \in ApiCauses(TRUE) :
        /\ CommanderCall("start", cause)
        /\ IF cause # NoError
           THEN /\ fnErr' = "failed to start DDALAB: " \o CommanderError("start", cause)
                /\ events' = Append(events, "StartWithContext")
                /\ UNCHANGED currentStatus
           ELSE /\ fnErr' = NoError
                /\ events' = events \o <<"StartWithContext",
                                         "ShowSuccess: DDALAB started successfully!">>
                /\ CheckNow
    /\ at' = "fn_returned"
    /\ UNCHANGED <<worldVars, monitorRest, parsed, front, choice, ctx, handler,
                   checkVars, installVars>>

\* handleStopCommand and handleRestartCommand: the confirmation, the call of
\* the Commander and, where it succeeded, the status check
ServiceCommand(op, prompt, call, failure, success) ==
    /\ \E confirmed \in BOOLEAN, cause \in ApiCauses(FALSE) :
        IF ~confirmed
        THEN /\ fnErr' = NoError
             /\ HandlerReturns(NoError, <<"ConfirmOperation(" \o prompt \o "): no">>)
             /\ UNCHANGED <<config, configFile, currentStatus>>
        ELSE /\ CommanderCall(op, cause)
             /\ fnErr' = IF cause = NoError THEN NoError
                         ELSE failure \o CommanderError(op, cause)
             /\ IF cause # NoError
                THEN /\ HandlerReturns(fnErr',
                          <<"ConfirmOperation(" \o prompt \o "): yes", call>>)
                     /\ UNCHANGED currentStatus
                ELSE /\ HandlerReturns(NoError,
                          <<"ConfirmOperation(" \o prompt \o "): yes", call, success>>)
                     /\ CheckNow
    /\ UNCHANGED <<worldVars, monitorRest, parsed, front, choice, ctx, handler,
                   checkVars, installVars>>

\* handleStopCommand, and runMainLoop with its result
handleStopCommand ==
    /\ front = "terminal" /\ at = "stop"
    /\ ServiceCommand("stop", "stop DDALAB", "Stop", "failed to stop DDALAB: ",
                      "ShowSuccess: DDALAB stopped successfully!")

\* handleRestartCommand, and runMainLoop with its result
handleRestartCommand ==
    /\ front = "terminal" /\ at = "restart"
    /\ ServiceCommand("restart", "restart DDALAB", "Restart",
                      "failed to restart DDALAB: ",
                      "ShowSuccess: DDALAB restarted successfully!")

\* handleStatusCommand, and runMainLoop with its result
handleStatusCommand ==
    /\ front = "terminal" /\ at = "status"
    /\ \E answer \in IsRunningAnswers :
        /\ fnErr' = IF answer = "error"
                    THEN "failed to check running status: failed to check service status"
                    ELSE NoError
        /\ HandlerReturns(fnErr',
             IF answer = "error" THEN <<"ShowProgress: Checking DDALAB status">>
             ELSE IF answer = "running"
             THEN <<"ShowProgress: Checking DDALAB status", "ShowSuccess: DDALAB is running">>
             ELSE <<"ShowProgress: Checking DDALAB status", "ShowInfo: DDALAB is not running">>)
    /\ UNCHANGED <<envVars, parsed, front, choice, ctx, handler, config, configFile,
                   checkVars, installVars>>

\* handleLogsCommand: the function executeWithInterrupt calls
TerminalLogs ==
    /\ front = "terminal" /\ at = "logs"
    /\ \E cause \in ApiCauses(TRUE) :
        /\ fnErr' = IF cause = NoError THEN NoError
                    ELSE "failed to get logs: " \o CommanderError("logs", cause)
        /\ events' = events \o
             (IF cause = NoError
              THEN <<"LogsWithContext", "ShowInfo: To view live logs, use: docker-compose logs -f">>
              ELSE <<"LogsWithContext">>)
    /\ at' = "fn_returned"
    /\ UNCHANGED <<envVars, parsed, front, choice, ctx, handler, config, configFile,
                   checkVars, installVars>>

\* the installation paths SelectInstallation returns
InstallPaths == {"/opt/ddalab", "/srv/ddalab"}

\* Monitor.Start, called by the launcher's one goroutine
StartMonitor ==
    IF running
    THEN UNCHANGED <<running, loops>>
    ELSE /\ running' = TRUE
         /\ loops' = Append(loops, "initial_check")

\* handleConfigureCommand, and runMainLoop with its result
handleConfigureCommand ==
    /\ front = "terminal" /\ at = "configure"
    /\ \E outcome \in {"no selection", "invalid"} \cup InstallPaths, ioError \in IOErrors :
        IF outcome \notin InstallPaths
        THEN /\ fnErr' = IF outcome = "invalid" THEN "installation validation failed"
                         ELSE "installation selection failed"
             /\ HandlerReturns(fnErr', <<"ShowInfo: Reconfiguring DDALAB installation...">>)
             /\ UNCHANGED <<config, configFile, running, loops, currentStatus>>
        ELSE /\ config' = [config EXCEPT !.DDALABPath = outcome, !.FirstRun = FALSE]
             /\ IF ioError
                THEN /\ fnErr' = "failed to save configuration"
                     /\ HandlerReturns(fnErr',
                          <<"ShowInfo: Reconfiguring DDALAB installation...">>)
                     /\ UNCHANGED <<configFile, running, loops, currentStatus>>
                ELSE /\ configFile' = config'
                     /\ fnErr' = NoError
                     /\ HandlerReturns(NoError,
                          <<"ShowInfo: Reconfiguring DDALAB installation...",
                            "ShowSuccess: Configuration updated successfully!">>)
                     /\ StartMonitor
                     /\ CheckNow
    /\ UNCHANGED <<worldVars, callers, monitorCalls, parsed, front, choice, ctx, handler,
                   checkVars, installVars>>

\* handleBackupCommand, and runMainLoop with its result
handleBackupCommand ==
    /\ front = "terminal" /\ at = "backup"
    /\ \E cause \in ApiCauses(FALSE) :
        /\ CommanderCall("backup", cause)
        /\ fnErr' = IF cause = NoError THEN NoError
                    ELSE "backup failed: " \o CommanderError("backup", cause)
        /\ HandlerReturns(fnErr',
             IF cause = NoError
             THEN <<"ShowProgress: Creating database backup", "Backup",
                    "ShowSuccess: Database backup created successfully!">>
             ELSE <<"ShowProgress: Creating database backup", "Backup">>)
    /\ UNCHANGED <<envVars, parsed, front, choice, ctx, handler, checkVars, installVars>>

\* handleUpdateCommand down to the call of fn in executeWithInterrupt
handleUpdateCommand ==
    /\ front = "terminal" /\ at = "update"
    /\ \E confirmed \in BOOLEAN :
        IF ~confirmed
        THEN /\ fnErr' = NoError
             /\ HandlerReturns(NoError,
                  <<"ConfirmOperation(update DDALAB to the latest version): no">>)
             /\ UNCHANGED <<ctx, handler>>
        ELSE /\ WithCancellableContext
             /\ fnErr' = NoError
             /\ events' = <<"ConfirmOperation(update DDALAB to the latest version): yes",
                            "ShowProgress: Updating DDALAB">>
             /\ at' = "updating"
    /\ UNCHANGED <<envVars, parsed, front, choice, config, configFile, checkVars,
                   installVars>>

\* handleUpdateCommand: the function executeWithInterrupt calls
TerminalUpdate ==
    /\ front = "terminal" /\ at = "updating"
    /\ \E cause \in ApiCauses(TRUE) :
        /\ CommanderCall("update", cause)
        /\ fnErr' = IF cause = NoError THEN NoError
                    ELSE "update failed: " \o CommanderError("update", cause)
        /\ events' = events \o
             (IF cause = NoError
              THEN <<"UpdateWithContext", "ShowSuccess: DDALAB updated successfully!">>
              ELSE <<"UpdateWithContext">>)
    /\ at' = "fn_returned"
    /\ UNCHANGED <<envVars, parsed, front, choice, ctx, handler, checkVars, installVars>>

\* handleEditConfigCommand, and runMainLoop with its result. GetEnvFilePath
\* finds the .env file, only its template (copied on request, unless the copy
\* fails) or neither; the editor runs inside the call and leaves nothing in
\* the launcher.
handleEditConfigCommand ==
    /\ front = "terminal" /\ at = "edit"
    /\ \E found \in {"env", "example", "none"}, copy \in {"yes", "no", "failed"},
          closed \in {"closed", "failed"} :
        /\ fnErr' =
             IF found = "none" THEN "could not find .env file"
             ELSE IF found = "example" /\ copy = "failed" THEN "failed to copy .env.example"
             ELSE IF found = "example" /\ copy = "no" THEN NoError
             ELSE IF closed = "failed" THEN "configuration editor failed"
             ELSE NoError
        /\ HandlerReturns(fnErr',
             (IF found = "example"
              THEN <<"ShowWarning: No .env file found!",
                     "ConfirmOperation(copy .env.example to .env now): "
                        \o (IF copy = "no" THEN "no" ELSE "yes")>>
              ELSE <<>>)
             \o (IF found = "none" \/ (found = "example" /\ copy # "yes") THEN <<>>
                 ELSE IF closed = "failed" THEN <<"RunConfigEditor">>
                 ELSE <<"RunConfigEditor", "ShowSuccess: Configuration editor closed">>))
    /\ UNCHANGED <<envVars, parsed, front, choice, ctx, handler, config, configFile,
                   checkVars, installVars>>

\* Commander.Uninstall: its error, and the config it leaves
UninstallCall(failed) ==
    /\ IF failed
       THEN UNCHANGED <<config, configFile>>
       ELSE /\ config' = [config EXCEPT !.LastOperation = "uninstall"]
            /\ \E ioError \in IOErrors :
                 configFile' = IF ioError THEN configFile ELSE config'
    /\ fnErr' = IF failed THEN "failed to stop DDALAB services" ELSE NoError

\* handleUninstallCommand: its warning, and the answer to
\* ConfirmOperation("completely uninstall DDALAB")
TerminalUninstallConfirm ==
    /\ front = "terminal" /\ at = "uninstall_confirm"
    /\ \E confirmed \in BOOLEAN :
        IF confirmed
        THEN /\ events' =
                  <<"ShowWarning: This will stop all DDALAB services and remove all data!",
                    "ConfirmOperation(completely uninstall DDALAB): yes">>
             /\ at' = "uninstall_reconfirm"
        ELSE /\ events' =
                  <<"ShowWarning: This will stop all DDALAB services and remove all data!",
                    "ConfirmOperation(completely uninstall DDALAB): no",
                    "Operation completed successfully!">>
             /\ at' = "menu"
    /\ UNCHANGED <<envVars, parsed, front, choice, ctx, handler, fnErr, config,
                   configFile, checkVars, installVars>>

\* the answer to ConfirmOperation("permanently delete all DDALAB data")
TerminalUninstallReconfirm ==
    /\ front = "terminal" /\ at = "uninstall_reconfirm"
    /\ \E confirmed \in BOOLEAN :
        IF confirmed
        THEN /\ events' = events \o
                    <<"ConfirmOperation(permanently delete all DDALAB data): yes",
                      "ShowProgress: Uninstalling DDALAB">>
             /\ at' = "uninstall"
        ELSE /\ events' = events \o
                    <<"ConfirmOperation(permanently delete all DDALAB data): no",
                      "Operation completed successfully!">>
             /\ at' = "menu"
    /\ UNCHANGED <<envVars, parsed, front, choice, ctx, handler, fnErr, config,
                   configFile, checkVars, installVars>>

\* handleUninstallCommand from commander.Uninstall() on, and runMainLoop back
\* to the menu
TerminalUninstall ==
    /\ front = "terminal" /\ at = "uninstall"
    /\ \E failed \in IOErrors :
        /\ UninstallCall(failed)
        /\ events' = events \o
             (IF failed
              THEN <<"Uninstall", "ShowError: uninstall failed: failed to stop DDALAB services">>
              ELSE <<"Uninstall", "ShowSuccess: DDALAB uninstalled successfully!",
                     "Operation completed successfully!">>)
    /\ at' = "menu"
    /\ UNCHANGED <<envVars, parsed, front, choice, ctx, handler, checkVars, installVars>>

\* GUI.checkLauncherUpdates: executeOperation starts the operation
GuiCheckLauncherUpdates ==
    /\ front = "gui" /\ at = "menu"
    /\ checks < MaxOperations
    /\ choice' = "Check for Launcher Updates"
    /\ at' = "check"
    /\ ctx' = "live"
    /\ fnErr' = NoError
    /\ events' = <<"logMessage: Checking for launcher updates...">>
    /\ UNCHANGED <<envVars, parsed, front, handler, config, configFile,
                   checkVars, installVars>>

\* the five minutes of executeOperation's context.WithTimeout pass
GuiTimeout ==
    /\ front = "gui" /\ ctx = "live"
    /\ ctx' = "deadline"
    /\ UNCHANGED <<envVars, parsed, front, at, choice, handler, fnErr, events,
                   config, configFile, checkVars, installVars>>

\* executeOperation after the operation returned e: the dialog with the
\* result, and statusMonitor.CheckNow()
GuiOperationDone(description, shown, e) ==
    /\ fnErr' = e
    /\ events' = shown \o
         <<IF e # NoError
           THEN "showError: " \o description \o " failed: " \o e
           ELSE "showSuccess: " \o description \o " completed successfully!">>
    /\ ctx' = "none"
    /\ at' = "menu"
    /\ CheckNow

\* checkLauncherUpdates from CheckForUpdates to the confirmation dialog
GuiCheck ==
    /\ front = "gui" /\ at = "check"
    /\ CheckForUpdatesOn(CallerCheckResponses)
    /\ IF checkErr' # NoError
       THEN GuiOperationDone("Checking for launcher updates", events, checkErr')
       ELSE IF ~updateInfo'.HasUpdate
       THEN GuiOperationDone("Checking for launcher updates",
                             Append(events, "showInfo: No Updates"), NoError)
       ELSE /\ events' = Append(events, "confirmAction: Update Available")
            /\ at' = "confirm"
            /\ UNCHANGED <<ctx, fnErr, currentStatus>>
    /\ UNCHANGED <<monitorRest, parsed, front, choice, handler, config, configFile>>

\* the answer to the "Update Available" dialog
GuiConfirm ==
    /\ front = "gui" /\ at = "confirm"
    /\ \E confirmed \in BOOLEAN :
        IF confirmed
        THEN /\ events' = Append(events, "confirmAction: yes")
             /\ at' = "perform"
             /\ UNCHANGED <<ctx, fnErr, currentStatus>>
        ELSE GuiOperationDone("Checking for launcher updates",
                              Append(events, "confirmAction: no"), NoError)
    /\ UNCHANGED <<worldVars, monitorRest, parsed, front, choice, handler, config,
                   configFile, checkVars, installVars>>

\* checkLauncherUpdates calls PerformUpdate
GuiPerform ==
    /\ front = "gui" /\ at = "perform"
    /\ PerformUpdateOn(1, CallerRequests(updateInfo.DownloadURL))
    /\ events' = events \o <<"logMessage: Downloading and installing launcher update...",
                             "PerformUpdate">>
    /\ at' = "installing"
    /\ UNCHANGED <<parsed, front, choice, ctx, handler, fnErr, config, configFile>>

\* checkLauncherUpdates after PerformUpdate returned
GuiUpdated ==
    /\ front = "gui" /\ at = "installing" /\ pc[1] = "returned"
    /\ FrameDropped
    /\ IF err[1] # NoError
       THEN GuiOperationDone("Checking for launcher updates", events,
                             "failed to install update: " \o err[1])
       ELSE GuiOperationDone("Checking for launcher updates",
                             Append(events, "showInfo: Update Complete"), NoError)
    /\ UNCHANGED <<worldVars, monitorRest, parsed, front, choice, handler, config,
                   configFile, checkVars, fs, script>>

\* the buttons that run a Commander method in executeOperation: the
\* description of the operation, whether confirmAction precedes it, the method
\* and whether the method takes the operation's context
GuiOperations ==
    [label \in {"Start DDALAB", "Stop DDALAB", "Restart DDALAB", "View Logs",
                "Update DDALAB", "Backup Database"} |->
        CASE label = "Start DDALAB" ->
               [description |-> "Starting DDALAB", confirm |-> FALSE, op |-> "start",
                underCtx |-> TRUE]
          [] label = "Stop DDALAB" ->
               [description |-> "Stopping DDALAB", confirm |-> TRUE, op |-> "stop",
                underCtx |-> FALSE]
          [] label = "Restart DDALAB" ->
               [description |-> "Restarting DDALAB", confirm |-> TRUE, op |-> "restart",
                underCtx |-> FALSE]
          [] label = "View Logs" ->
               [description |-> "Fetching logs", confirm |-> FALSE, op |-> "logs",
                underCtx |-> TRUE]
          [] label = "Update DDALAB" ->
               [description |-> "Updating DDALAB", confirm |-> TRUE, op |-> "update",
                underCtx |-> TRUE]
          [] label = "Backup Database" ->
               [description |-> "Creating backup", confirm |-> FALSE, op |-> "backup",
                underCtx |-> FALSE]]

\* a button of createServiceButtons or createManagementButtons is pressed:
\* the dialog of confirmAction, or the start of executeOperation
GuiServiceButton ==
    /\ front = "gui" /\ at = "menu"
    /\ \E label \in DOMAIN GuiOperations :
        /\ choice' = label
        /\ fnErr' = NoError
        /\ IF GuiOperations[label].confirm
           THEN /\ events' = <<"confirmAction: " \o label>>
                /\ at' = "confirm_action"
                /\ UNCHANGED ctx
           ELSE /\ events' = <<"logMessage: " \o GuiOperations[label].description \o "...">>
                /\ at' = "operation"
                /\ ctx' = "live"
    /\ UNCHANGED <<envVars, parsed, front, handler, config, configFile, checkVars,
                   installVars>>

\* the answer to the dialog of confirmAction; yes starts executeOperation
GuiConfirmAction ==
    /\ front = "gui" /\ at = "confirm_action"
    /\ \E confirmed \in BOOLEAN :
        IF confirmed
        THEN /\ events' = events \o
                  <<"confirmAction: yes",
                    "logMessage: " \o GuiOperations[choice].description \o "...">>
             /\ at' = "operation"
             /\ ctx' = "live"
        ELSE /\ events' = Append(events, "confirmAction: no")
             /\ at' = "menu"
             /\ UNCHANGED ctx
    /\ UNCHANGED <<envVars, parsed, front, choice, handler, fnErr, config, configFile,
                   checkVars, installVars>>

\* executeOperation: the Commander method of the button, the dialog with its
\* result and the status check
GuiOperation ==
    /\ front = "gui" /\ at = "operation"
    /\ LET button == GuiOperations[choice]
       IN  \E cause \in ApiCauses(button.underCtx) :
             /\ CommanderCall(button.op, cause)
             /\ GuiOperationDone(button.description, Append(events, button.op),
                                 CommanderError(button.op, cause))
    /\ UNCHANGED <<worldVars, monitorRest, parsed, front, choice, handler, checkVars,
                   installVars>>

\* the buttons that show a dialog and no more: showDetailedStatus, the note
\* that the GUI edits no configuration, showAbout
GuiInfoButton ==
    /\ front = "gui" /\ at = "menu"
    /\ \E label \in {"Check Status", "Edit Configuration", "About"},
          answer \in IsRunningAnswers :
        /\ choice' = label
        /\ events' =
             IF label = "Edit Configuration" THEN <<"showInfo: Configuration">>
             ELSE IF label = "About" THEN <<"showInfo: About DDALAB Launcher">>
             ELSE IF answer = "error" THEN <<"showError: Status Check Failed">>
             ELSE <<"showInfo: DDALAB Status">>
    /\ UNCHANGED <<envVars, parsed, front, at, ctx, handler, fnErr, config, configFile,
                   checkVars, installVars>>

\* the button "Uninstall DDALAB": confirmDangerousAction shows its dialog
GuiUninstallButton ==
    /\ front = "gui" /\ at = "menu"
    /\ choice' = "Uninstall DDALAB"
    /\ events' = <<"confirmDangerousAction: Uninstall DDALAB">>
    /\ at' = "uninstall_confirm"
    /\ UNCHANGED <<envVars, parsed, front, ctx, handler, fnErr, config, configFile,
                   checkVars, installVars>>

\* the answer to the dialog; "Yes, Uninstall" starts executeOperation
GuiUninstallConfirm ==
    /\ front = "gui" /\ at = "uninstall_confirm"
    /\ \E confirmed \in BOOLEAN :
        IF confirmed
        THEN /\ events' = events \o <<"confirmDangerousAction: yes",
                                      "logMessage: Uninstalling DDALAB...">>
             /\ ctx' = "live"
             /\ at' = "uninstall"
        ELSE /\ events' = Append(events, "confirmDangerousAction: no")
             /\ at' = "menu"
             /\ UNCHANGED ctx
    /\ UNCHANGED <<envVars, parsed, front, choice, handler, fnErr, config,
                   configFile, checkVars, installVars>>

\* executeOperation("Uninstalling DDALAB", ...): commander.Uninstall(), the
\* dialog with its result and the status check
GuiUninstall ==
    /\ front = "gui" /\ at = "uninstall"
    /\ \E failed \in IOErrors :
        /\ UninstallCall(failed)
        /\ events' = events \o
             (IF failed
              THEN <<"Uninstall",
                     "showError: Uninstalling DDALAB failed: failed to stop DDALAB services">>
              ELSE <<"Uninstall", "showSuccess: Uninstalling DDALAB completed successfully!">>)
    /\ ctx' = "none"
    /\ at' = "menu"
    /\ CheckNow
    /\ UNCHANGED <<worldVars, monitorRest, parsed, front, choice, handler, checkVars,
                   installVars>>

\* the window is closed: the process ends
GuiClose ==
    /\ front = "gui" /\ at = "menu"
    /\ choice' = "Exit"
    /\ at' = "exited"
    /\ Goroutines
    /\ UNCHANGED <<worldVars, running, callers, monitorCalls, currentStatus, parsed,
                   front, ctx, fnErr, events, config, configFile, checkVars, installVars>>

(***************************************************************************)
(* The start of the launcher                                               *)
(***************************************************************************)

\* time.Time{}, the last_update_check of a launcher that never checked: an
\* hour of the year 1
ZeroTime == 0 - 17000000

\* the default of update_check_interval_hours
DefaultInterval == 24

\* the LauncherConfig of NewConfigManager before Load, of a dev build
DefaultConfig ==
    [FirstRun |-> TRUE, DDALABPath |-> "", LastOperation |-> "", Version |-> "dev",
     AutoUpdateCheck |-> TRUE, UpdateCheckInterval |-> DefaultInterval,
     LastUpdateCheck |-> ZeroTime]

\* ConfigManager.ShouldCheckForUpdates at hour t
ShouldCheckForUpdates(cfg, t) ==
    IF ~cfg.AutoUpdateCheck THEN FALSE
    ELSE t - cfg.LastUpdateCheck >= cfg.UpdateCheckInterval

\* the config of a launcher that was set up and whose last update installed
\* 1.5.0
ConfiguredConfig ==
    [DefaultConfig EXCEPT !.FirstRun = FALSE, !.DDALABPath = "/opt/ddalab",
                          !.Version = "1.5.0"]

\* ConfigManager's config after Load
InitConfig ==
    /\ config = ConfiguredConfig
    /\ configFile = config

\* NewLauncher: the config loaded from one of the stored ones, a handler
\* with no operation, and main about to call Run
InitCaller(fronts, stored) ==
    /\ front \in fronts
    /\ at = "startup"
    /\ choice = ""
    /\ ctx = "none"
    /\ handler = NoHandler
    /\ fnErr = NoError
    /\ events = <<>>
    /\ configFile \in stored
    /\ config = configFile

\* no launcher runs: the updater, the monitor or the editor is called by
\* itself
InitOuter ==
    /\ parsed = NoParsed
    /\ front = "none"
    /\ at = "none"
    /\ choice = ""
    /\ ctx = "none"
    /\ handler = NoHandler
    /\ fnErr = NoError
    /\ events = <<>>
    /\ InitConfig

\* the hours the clock runs for
MaxHours == 3

\* the checks after which the launcher is not started again
MaxStartupChecks == 2

\* update_check_interval_hours as stored: no wait, two hours, the default
Intervals == {0, 2, DefaultInterval}

\* the config files a launcher starts with: the one of a first run, and the
\* ones of a launcher that was set up
StoredConfigs ==
    {[DefaultConfig EXCEPT !.FirstRun = first, !.AutoUpdateCheck = auto,
                           !.DDALABPath = IF first THEN "" ELSE "/opt/ddalab",
                           !.UpdateCheckInterval = hours, !.Version = "1.5.0"] :
        first \in BOOLEAN, auto \in BOOLEAN, hours \in Intervals}

\* what the check at startup is answered with under its 10-second context
StartupCheckResponses ==
    {resp \in CheckResponses :
        /\ resp.cause # Canceled
        /\ resp.kind = "ok" => resp.release \in CallerReleases}

\* Launcher.Run: the first-time setup, or the main loop
Run ==
    /\ front = "terminal" /\ at = "startup"
    /\ at' = IF config.FirstRun THEN "setup" ELSE "main_loop"
    /\ UNCHANGED <<envVars, parsed, front, choice, ctx, handler, fnErr, events,
                   config, configFile, checkVars, installVars>>

\* Launcher.runFirstTimeSetup down to its return or to its call of
\* handleStartCommand: SelectInstallation, ValidateInstallation, SetDDALABPath,
\* Save and the answer to ConfirmOperation("start DDALAB now")
runFirstTimeSetup ==
    /\ front = "terminal" /\ at = "setup"
    /\ \E outcome \in {"no selection", "invalid", "/opt/ddalab"},
          ioError \in IOErrors, startNow \in BOOLEAN :
        IF outcome = "no selection"
        THEN /\ at' = "failed"
             /\ fnErr' = "installation selection failed"
             /\ events' = <<>>
             /\ UNCHANGED <<config, configFile>>
        ELSE IF outcome = "invalid"
        THEN /\ at' = "failed"
             /\ fnErr' = "installation validation failed"
             /\ events' = <<"ShowError: Installation validation failed">>
             /\ UNCHANGED <<config, configFile>>
        ELSE /\ config' = [config EXCEPT !.DDALABPath = outcome, !.FirstRun = FALSE]
             /\ IF ioError
                THEN /\ at' = "failed"
                     /\ fnErr' = "failed to save configuration"
                     /\ events' = <<>>
                     /\ UNCHANGED configFile
                ELSE /\ configFile' = config'
                     /\ fnErr' = NoError
                     /\ events' =
                          <<"ShowSuccess: DDALAB Launcher configured successfully!",
                            IF startNow THEN "ConfirmOperation(start DDALAB now): yes"
                            ELSE "ConfirmOperation(start DDALAB now): no">>
                     /\ at' = IF startNow THEN "start" ELSE "exited"
    /\ UNCHANGED <<envVars, parsed, front, choice, ctx, handler, checkVars, installVars>>

\* main with what Run returned after handleStartCommand: the process ends
RunReturns ==
    /\ front = "terminal" /\ at \in {"run_nil", "run_err"}
    /\ at' = IF at = "run_err" THEN "failed" ELSE "exited"
    /\ Goroutines
    /\ UNCHANGED <<worldVars, running, callers, monitorCalls, currentStatus, parsed,
                   front, choice, ctx, fnErr, events, config, configFile, checkVars,
                   installVars>>

\* Launcher.runMainLoop before checkForUpdatesOnStartup: the status monitor
\* is started where DDALAB is configured
runMainLoop ==
    /\ front = "terminal" /\ at = "main_loop"
    /\ IF config.DDALABPath # "" THEN StartMonitor ELSE UNCHANGED <<running, loops>>
    /\ at' = "startup_check"
    /\ UNCHANGED <<worldVars, callers, monitorCalls, currentStatus, parsed, front,
                   choice, ctx, handler, fnErr, events, config, configFile, checkVars,
                   installVars>>

\* Launcher.checkForUpdatesOnStartup, called by runMainLoop before the menu
checkForUpdatesOnStartup ==
    /\ front = "terminal" /\ at = "startup_check"
    /\ at' = "menu"
    /\ IF ~ShouldCheckForUpdates(config, now)
       THEN UNCHANGED <<worldVars, checkVars, installVars, events, config, configFile>>
       ELSE /\ CheckForUpdatesOn(StartupCheckResponses)
            /\ config' = [config EXCEPT !.LastUpdateCheck = now]
            /\ \E ioError \in IOErrors :
                 configFile' = IF ioError THEN configFile ELSE config'
            /\ events' =
                 <<"ShowInfo: Checking for launcher updates...">> \o
                 (IF checkErr' = NoError /\ updateInfo'.HasUpdate
                  THEN <<"ShowInfo: Update available",
                         "ShowInfo: Use 'Check for Launcher Updates' from the menu to install">>
                  ELSE <<>>)
    /\ UNCHANGED <<monitorVars, parsed, front, choice, ctx, handler, fnErr>>

\* GUI.Show: the window, with no status monitor started and no update check
\* on the way
GuiRun ==
    /\ front = "gui" /\ at = "startup"
    /\ at' = "menu"
    /\ UNCHANGED <<envVars, parsed, front, choice, ctx, handler, fnErr, events,
                   config, configFile, checkVars, installVars>>

\* the launcher is started again: NewLauncher with a new handler and a new
\* monitor, and the config NewConfigManager loads
Restart ==
    /\ at \in {"exited", "failed"}
    /\ checks < MaxStartupChecks
    /\ at' = "startup"
    /\ config' = configFile
    /\ choice' = ""
    /\ events' = <<>>
    /\ fnErr' = NoError
    /\ ctx' = "none"
    /\ handler' = NoHandler
    /\ running' = FALSE
    /\ loops' = <<>>
    /\ currentStatus' = "Unknown"
    /\ UNCHANGED <<worldVars, callers, monitorCalls, parsed, front, configFile,
                   checkVars, installVars>>

\* an hour passes while no launcher runs or the menu waits
Tick ==
    /\ at \in {"exited", "failed", "menu"}
    /\ now < MaxHours
    /\ now' = now + 1
    /\ UNCHANGED <<goos, goarch, faults, health, monitorVars, editor, outerVars, checkVars,
                   installVars>>

(***************************************************************************)
(* Specifications                                                          *)
(***************************************************************************)

\* a file some other program left at <exe>.new
LeftoverNew == [data |-> [id |-> "STALE", size |-> 2048], mode |-> Mode0644]

\* the directory of the executable: the launcher, and on Windows, where the
\* file matters, possibly a file at <exe>.new
InstallDir(new) ==
    [path \in Paths |-> IF path = CurrentExe THEN OriginalBinary
                        ELSE IF path = NewPath THEN new ELSE NoFile]

InitInstall ==
    /\ \E new \in (IF goos = "windows" THEN {NoFile, LeftoverNew} ELSE {NoFile}) :
         fs = InstallDir(new)
    /\ pc = [p \in Procs |-> "idle"]
    /\ updateBody = [p \in Procs |-> EmptyData]
    /\ err = [p \in Procs |-> NoError]
    /\ failedAt = [p \in Procs |-> {}]
    /\ request = [p \in Procs |-> NoRequest]
    /\ script = "none"

InitCheckIdle ==
    /\ checks = 0
    /\ checkTimes = <<>>
    /\ release = NoRelease
    /\ updateInfo = NoInfo
    /\ checkErr = NoError

\* one PerformUpdate call of a launcher built from version 1.5.0
Init ==
    /\ \E pl \in Platforms : goos = pl[1] /\ goarch = pl[2]
    /\ faults = TRUE
    /\ health = Statuses
    /\ now = 0
    /\ InitMonitor
    /\ editor = NewConfigEditor(<<>>)
    /\ currentVersion = "1.5.0"
    /\ InitCheckIdle
    /\ InitInstall
    /\ InitOuter

Install(p) ==
    \/ PerformUpdate(p)
    \/ UnixCreateTemp(p)
    \/ UnixApply(p)
    \/ UnixChmod(p)
    \/ UnixBackup(p)
    \/ UnixMoveIntoPlace(p)
    \/ UnixRestoreBackup(p)
    \/ UnixRemoveBackup(p)
    \/ UnixCleanup(p)
    \/ WinApply(p)
    \/ WinWriteBatch(p)
    \/ WinStartBatch(p)
    \/ WinCleanupNew(p)
    \/ WinCleanupBatch(p)
    \/ Kill(p)

Script ==
    \/ ScriptTimeout
    \/ ScriptMoveAside
    \/ ScriptMoveNew
    \/ ScriptDelOld
    \/ ScriptDelSelf

Next == Install(1) \/ Script

Spec == Init /\ [][Next]_vars

\* CheckForUpdates calls of an Updater constructed with any version string
InitCheck ==
    /\ \E pl \in Platforms : goos = pl[1] /\ goarch = pl[2]
    /\ faults = TRUE
    /\ health = Statuses
    /\ now = 0
    /\ InitMonitor
    /\ editor = NewConfigEditor(<<>>)
    /\ currentVersion \in VersionStrings
    /\ InitCheckIdle
    /\ InitInstall
    /\ InitOuter

NextCheck == CheckForUpdates

SpecCheck == InitCheck /\ [][NextCheck]_vars

\* ParseVersion calls on pairs of major.minor.patch strings
InitParse ==
    /\ goos = "linux" /\ goarch = "amd64"
    /\ faults = TRUE
    /\ health = Statuses
    /\ now = 0
    /\ InitMonitor
    /\ editor = NewConfigEditor(<<>>)
    /\ currentVersion = "1.5.0"
    /\ InitCheckIdle
    /\ InitInstall
    /\ InitOuter

NextParse == ParseVersion

SpecParse == InitParse /\ [][NextParse]_vars

\* the config of a launcher that was set up, whose user turned the automatic
\* update check off
QuietConfig == [ConfiguredConfig EXCEPT !.AutoUpdateCheck = FALSE]

\* the update action of the terminal launcher's menu and of the GUI, from
\* the start of the launcher on, with DDALAB down and no interrupt signal
InitMenu ==
    /\ \E pl \in Platforms : goos = pl[1] /\ goarch = pl[2]
    /\ faults = TRUE
    /\ health = {"Down"}
    /\ now = 0
    /\ InitMonitor
    /\ editor = NewConfigEditor(<<>>)
    /\ currentVersion = "1.5.0"
    /\ InitCheckIdle
    /\ InitInstall
    /\ parsed = NoParsed
    /\ InitCaller({"terminal", "gui"}, {QuietConfig})

InstallStrategy(p) ==
    \/ UnixCreateTemp(p)
    \/ UnixApply(p)
    \/ UnixChmod(p)
    \/ UnixBackup(p)
    \/ UnixMoveIntoPlace(p)
    \/ UnixRestoreBackup(p)
    \/ UnixRemoveBackup(p)
    \/ UnixCleanup(p)
    \/ WinApply(p)
    \/ WinWriteBatch(p)
    \/ WinStartBatch(p)
    \/ WinCleanupNew(p)
    \/ WinCleanupBatch(p)

\* what the user answers the menu with where the launcher's own update is
\* all that is asked for
UpdateChoices == MenuErrors \cup {"Exit", "Check for Launcher Updates"}

\* the start of the terminal launcher down to its menu
Startup ==
    \/ Run
    \/ runMainLoop
    \/ checkForUpdatesOnStartup

\* the monitorLoop goroutines
Loops ==
    \/ \E l \in 1..MaxMonitorCalls : LoopInitialCheck(l)
    \/ \E l \in 1..MaxMonitorCalls : LoopTick(l)
    \/ \E l \in 1..MaxMonitorCalls : LoopCheck(l)

\* handleCheckUpdatesCommand in executeWithInterrupt
TerminalUpdateAction ==
    \/ ListenerNotify
    \/ TerminalCheck
    \/ TerminalConfirm
    \/ TerminalPerform
    \/ TerminalUpdated
    \/ TerminalInterruptCheck
    \/ TerminalFinish

Terminal ==
    \/ Startup
    \/ TerminalMenu(UpdateChoices)
    \/ TerminalUpdateAction

Gui ==
    \/ GuiRun
    \/ GuiCheckLauncherUpdates
    \/ GuiTimeout
    \/ GuiCheck
    \/ GuiConfirm
    \/ GuiPerform
    \/ GuiUpdated
    \/ GuiClose

NextMenu == Terminal \/ Gui \/ InstallStrategy(1) \/ Loops

SpecMenu == InitMenu /\ [][NextMenu]_vars

\* the update action of the terminal launcher on a POSIX build where no I/O
\* call fails by itself, with interrupt signals
InitInterrupt ==
    /\ goos = "linux" /\ goarch = "amd64"
    /\ faults = FALSE
    /\ health = {"Down"}
    /\ now = 0
    /\ InitMonitor
    /\ editor = NewConfigEditor(<<>>)
    /\ currentVersion = "1.5.0"
    /\ InitCheckIdle
    /\ InitInstall
    /\ parsed = NoParsed
    /\ InitCaller({"terminal"}, {QuietConfig})

\* the handleSignals goroutines with a signal
Listeners ==
    \/ Signal
    \/ ListenerRead
    \/ ListenerCancel
    \/ ListenerSend

\* the steps of performUnixUpdate that run where no I/O call fails
PosixSteps(p) ==
    \/ UnixCreateTemp(p)
    \/ UnixApply(p)
    \/ UnixChmod(p)
    \/ UnixBackup(p)
    \/ UnixMoveIntoPlace(p)
    \/ UnixRemoveBackup(p)
    \/ UnixCleanup(p)

NextInterrupt == Terminal \/ Listeners \/ PosixSteps(1) \/ Loops

SpecInterrupt == InitInterrupt /\ [][NextInterrupt]_vars

\* the launcher started time and again, from its first run on
InitLauncher ==
    /\ goos = "linux" /\ goarch = "amd64"
    /\ faults = TRUE
    /\ health = {"Down"}
    /\ now = 0
    /\ InitMonitor
    /\ editor = NewConfigEditor(<<>>)
    /\ currentVersion = "1.5.0"
    /\ InitCheckIdle
    /\ InitInstall
    /\ parsed = NoParsed
    /\ InitCaller({"terminal", "gui"}, StoredConfigs)

\* handleStartCommand, called by runFirstTimeSetup
SetupStart ==
    \/ handleStartCommand
    \/ ListenerNotify
    \/ TerminalStart
    \/ TerminalInterruptCheck
    \/ TerminalFinish
    \/ RunReturns

NextLauncher ==
    \/ Startup
    \/ runFirstTimeSetup
    \/ SetupStart
    \/ TerminalMenu(MenuErrors \cup {"Exit"})
    \/ GuiRun
    \/ GuiClose
    \/ Restart
    \/ Tick
    \/ Loops

SpecLauncher == InitLauncher /\ [][NextLauncher]_vars

\* what the user answers the menu with where DDALAB is managed
CommandChoices == MenuErrors \cup (MenuLabels \ {"Check for Launcher Updates"})

\* the commands of the terminal menu and the buttons of the GUI that manage
\* DDALAB, with DDALAB up or down and no interrupt signal
InitCommands ==
    /\ goos = "linux" /\ goarch = "amd64"
    /\ faults = TRUE
    /\ health = {"Up", "Down"}
    /\ now = 0
    /\ InitMonitor
    /\ editor = NewConfigEditor(<<>>)
    /\ currentVersion = "1.5.0"
    /\ InitCheckIdle
    /\ InitInstall
    /\ parsed = NoParsed
    /\ InitCaller({"terminal", "gui"}, {QuietConfig})

TerminalCommands ==
    \/ handleStartCommand
    \/ TerminalStart
    \/ handleStopCommand
    \/ handleRestartCommand
    \/ handleStatusCommand
    \/ TerminalLogs
    \/ handleEditConfigCommand
    \/ handleConfigureCommand
    \/ handleBackupCommand
    \/ handleUpdateCommand
    \/ TerminalUpdate
    \/ TerminalUninstallConfirm
    \/ TerminalUninstallReconfirm
    \/ TerminalUninstall
    \/ ListenerNotify
    \/ TerminalInterruptCheck
    \/ TerminalFinish

GuiCommands ==
    \/ GuiServiceButton
    \/ GuiConfirmAction
    \/ GuiOperation
    \/ GuiInfoButton
    \/ GuiTimeout
    \/ GuiUninstallButton
    \/ GuiUninstallConfirm
    \/ GuiUninstall
    \/ GuiClose

NextCommands ==
    \/ Startup
    \/ TerminalMenu(CommandChoices)
    \/ TerminalCommands
    \/ GuiRun
    \/ GuiCommands
    \/ Loops

SpecCommands == InitCommands /\ [][NextCommands]_vars

\* Start and Stop calls on one status monitor
InitStatus ==
    /\ goos = "linux" /\ goarch = "amd64"
    /\ faults = TRUE
    /\ health = Statuses
    /\ now = 0
    /\ InitMonitor
    /\ editor = NewConfigEditor(<<>>)
    /\ currentVersion = "1.5.0"
    /\ InitCheckIdle
    /\ InitInstall
    /\ InitOuter

SpecMonitor == InitStatus /\ [][NextMonitor]_vars

\* the scheduler runs every goroutine that can take a step: each loop, whose
\* ticker fires every 5 seconds, and each caller inside Start or Stop
SpecMonitorLive ==
    /\ SpecMonitor
    /\ \A l \in 1..MaxMonitorCalls : WF_vars(LoopStep(l))
    /\ \A c \in MonitorCallers : WF_vars(CallStep(c))

\* RunConfigEditor on one of the env files
InitEditor ==
    /\ goos = "linux" /\ goarch = "amd64"
    /\ faults = TRUE
    /\ health = Statuses
    /\ now = 0
    /\ InitMonitor
    /\ \E file \in EnvFiles : editor = NewConfigEditor(file)
    /\ currentVersion = "1.5.0"
    /\ InitCheckIdle
    /\ InitInstall
    /\ InitOuter

SpecEditor == InitEditor /\ [][NextEditor]_vars

\* two PerformUpdate calls at once on one executable path of a POSIX build,
\* in an environment where no I/O call fails by itself
RaceRequests ==
    {req \in Requests : req.url = "https://dl/ddalab-launcher-linux-amd64.tar.gz"}

InitRace ==
    /\ goos = "linux" /\ goarch = "amd64"
    /\ faults \in BOOLEAN
    /\ health = Statuses
    /\ now = 0
    /\ InitMonitor
    /\ editor = NewConfigEditor(<<>>)
    /\ currentVersion = "1.5.0"
    /\ InitCheckIdle
    /\ InitInstall
    /\ InitOuter

PosixInstall(p) ==
    \/ PerformUpdateOn(p, RaceRequests) /\ UNCHANGED outerVars
    \/ UnixCreateTemp(p)
    \/ UnixApply(p)
    \/ UnixChmod(p)
    \/ UnixBackup(p)
    \/ UnixMoveIntoPlace(p)
    \/ UnixRestoreBackup(p)
    \/ UnixRemoveBackup(p)
    \/ UnixCleanup(p)

NextRace == PosixInstall(1) \/ PosixInstall(2)

SpecRace == InitRace /\ [][NextRace]_vars

(***************************************************************************)
(* Properties of the install strategies (Spec)                             *)
(***************************************************************************)

Returned(p) == pc[p] = "returned"

\* the new binary as the POSIX strategy installs it
NewInstalled(p) == [data |-> updateBody[p], mode |-> Mode0755]

\* the I/O steps before the point of no return of either strategy
PreCommitSteps ==
    {"create_temp", "apply", "chmod", "backup", "apply_new", "write_batch", "start_batch"}

MoveError == "failed to move new binary into place"

\* C1: when an I/O step before the point of no return failed (POSIX: create
\* temp, write, chmod, backup rename; Windows: write .new, write script, start
\* script), the original executable stays at its path unchanged, and the call
\* returns an error.
C1_FailureBeforeCommitKeepsOriginal ==
    \A p \in Procs :
        failedAt[p] \cap PreCommitSteps # {} =>
            /\ fs[CurrentExe] = OriginalBinary
            /\ Returned(p) => err[p] # NoError

C1_Witness == Returned(1) /\ "backup" \in failedAt[1]

\* C2 as stated: whenever the final rename failed, the call returns with the
\* original binary at the executable path and no .backup file.
C2_Original ==
    \A p \in Procs :
        (Returned(p) /\ "move" \in failedAt[p]) =>
            /\ fs[CurrentExe] = OriginalBinary
            /\ ~Exists(fs, BackupPath)

\* C2 amended: when the final rename failed and the rollback rename succeeded,
\* the call returns an error with the original binary at the executable path
\* and no .backup file.
C2_RollbackRestoresOriginal ==
    \A p \in Procs :
        (Returned(p) /\ "move" \in failedAt[p] /\ "restore" \notin failedAt[p]) =>
            /\ err[p] # NoError
            /\ fs[CurrentExe] = OriginalBinary
            /\ ~Exists(fs, BackupPath)

C2_Witness == Returned(1) /\ "move" \in failedAt[1] /\ "restore" \notin failedAt[1]

\* C3 as stated: in every state of the POSIX install, a kill between two steps
\* included, the executable path holds the complete original or the complete
\* new binary.
C3_Original ==
    ~IsWindows => fs[CurrentExe] \in {OriginalBinary, NewInstalled(1)}

\* C3 amended: in every state of the POSIX install, a kill between two steps
\* included, the executable path holds the complete original binary, the
\* complete new binary, or no file; and whenever it holds no file the complete
\* original binary is at the .backup path.
C3_CompleteBinaryOrBackup ==
    ~IsWindows =>
        \/ fs[CurrentExe] \in {OriginalBinary, NewInstalled(1)}
        \/ /\ fs[CurrentExe] = NoFile
           /\ fs[BackupPath] = OriginalBinary

C3_Witness == pc[1] = "killed" /\ fs[CurrentExe] = NoFile /\ fs[BackupPath] = OriginalBinary

\* C4: once the script was started and the installer has returned, the .new
\* file and the script file still exist when the script begins its work.
C4_Original ==
    \A p \in Procs :
        (Returned(p) /\ script = "timeout") =>
            /\ Exists(fs, NewPath)
            /\ Exists(fs, BatchPath)

\* C5: after a successful Windows install has returned, the script ends only
\* with the new binary at the executable path.
C5_Original ==
    (Returned(1) /\ err[1] = NoError /\ script \in {"done", "aborted"}) =>
        /\ Exists(fs, CurrentExe)
        /\ fs[CurrentExe].data = updateBody[1]

\* C6: when the final rename and the rollback rename both failed, the error
\* returned differs from the one returned after a successful rollback.
C6_Original ==
    \A p \in Procs :
        (Returned(p) /\ {"move", "restore"} \subseteq failedAt[p]) => err[p] # MoveError

\* C7 as stated: once the POSIX install has returned, neither its temporary
\* file nor the .backup file exists.
C7_Original ==
    \A p \in Procs :
        (Returned(p) /\ ~IsWindows) =>
            /\ ~Exists(fs, TempPath(p))
            /\ ~Exists(fs, BackupPath)

\* C7 amended: once the POSIX install has returned, its temporary file exists
\* only if the deferred removal of it failed, and the .backup file exists only
\* if the rollback rename failed (after a failed final rename) or the removal
\* of the backup failed (after a successful one).
C7_ArtifactsRemovedUnlessRemovalFailed ==
    \A p \in Procs :
        (Returned(p) /\ ~IsWindows) =>
            /\ Exists(fs, TempPath(p)) => "cleanup_temp" \in failedAt[p]
            /\ Exists(fs, BackupPath) =>
                   \/ "restore" \in failedAt[p]
                   \/ "remove_backup" \in failedAt[p]

C7_Witness ==
    /\ Returned(1) /\ ~IsWindows /\ err[1] = NoError /\ failedAt[1] = {}
    /\ fs[CurrentExe] = NewInstalled(1)
    /\ ~Exists(fs, TempPath(1)) /\ ~Exists(fs, BackupPath)

\* C8: the binary handed to an install strategy is never smaller than 1024
\* bytes, whichever branch the download URL selects.
C8_Original ==
    \A p \in Procs : pc[p] \in InstallSteps => updateBody[p].size >= MinBinarySize

(***************************************************************************)
(* Properties of archive extraction (Spec)                                 *)
(***************************************************************************)

\* call p downloaded an archive of the format its URL announces
Downloaded(p, suffix, format) ==
    /\ request[p] # NoRequest
    /\ HasSuffix(request[p].url, suffix)
    /\ request[p].exe = "ok"
    /\ ~request[p].resp.neterr /\ request[p].resp.StatusCode = 200
    /\ request[p].resp.Body.format = format

Entries(p) == request[p].resp.Body.entries

PlatformToken == goos \o "-" \o goarch

ExtractFailed(p) ==
    /\ Returned(p)
    /\ HasPrefix(err[p], "failed to extract binary from archive: ")
    /\ updateBody[p] = EmptyData

\* the patterns the extractor of the downloaded format tries
TriedPatterns(p) ==
    IF HasSuffix(request[p].url, ".zip") THEN ZipPatterns(goos, goarch)
    ELSE TarPatterns(goos, goarch)

\* the generic executable names of the branch that reads the archive of p:
\* the zip branch knows the two .exe names, the tar branch the two plain
\* names and, on Windows, the .exe names as well
GenericNames(p) ==
    IF HasSuffix(request[p].url, ".zip") THEN {"ddalab-launcher.exe", "launcher.exe"}
    ELSE {"ddalab-launcher", "launcher"}
         \cup (IF goos = "windows" THEN {"ddalab-launcher.exe", "launcher.exe"} ELSE {})

\* entry i is a file whose base name contains a tried pattern, or a
\* generically named file under a path with the platform token
EntryMatches(p, i) ==
    /\ Entries(p)[i].Typeflag # "dir"
    /\ \/ \E k \in 1..Len(TriedPatterns(p)) :
              Contains(Base(Entries(p)[i].Name), TriedPatterns(p)[k])
       \/ /\ Base(Entries(p)[i].Name) \in GenericNames(p)
          /\ Contains(Entries(p)[i].Name, PlatformToken)

NoEntryMatches(p) == \A i \in 1..Len(Entries(p)) : ~EntryMatches(p, i)

\* C15: a tar+gzip archive whose matching entry, the first one to match, has
\* the platform token in its base name and n bytes: with n >= 1024 the
\* extraction hands on exactly the n bytes of that entry; with n < 1024
\* PerformUpdate returns the extraction error and no binary.
C15_TarSizeThreshold ==
    \A p \in Procs :
        Downloaded(p, ".tar.gz", "tar.gz") /\ ~NoEntryMatches(p) =>
            LET first == CHOOSE i \in 1..Len(Entries(p)) :
                            /\ EntryMatches(p, i)
                            /\ \A j \in 1..(i - 1) : ~EntryMatches(p, j)
                entry == Entries(p)[first]
            IN  Contains(Base(entry.Name), PlatformToken) =>
                    IF entry.Data.size >= 1024
                    THEN updateBody[p] = entry.Data /\ ~ExtractFailed(p)
                    ELSE ExtractFailed(p)

\* an entry of exactly 1024 bytes is handed on
C15_Witness ==
    /\ Downloaded(1, ".tar.gz", "tar.gz")
    /\ Entries(1)[1].Name = "app-linux-amd64"
    /\ Entries(1)[1].Data.size = 1024
    /\ goos = "linux" /\ goarch = "amd64"
    /\ updateBody[1] = Entries(1)[1].Data
    /\ pc[1] = "unix_create_temp"

\* C16: when a tar+gzip or zip archive has no entry for the running platform,
\* PerformUpdate returns the extraction error, the error names every pattern
\* that was tried, and no install step has run: the directory of the
\* executable is as it was.
C16_NoMatchFailsNamingPatterns ==
    \A p \in Procs :
        /\ \/ Downloaded(p, ".tar.gz", "tar.gz")
           \/ Downloaded(p, ".zip", "zip")
        /\ NoEntryMatches(p)
        => /\ ExtractFailed(p)
           /\ Contains(err[p], "Expected patterns: ")
           /\ \A k \in 1..Len(TriedPatterns(p)) : Contains(err[p], TriedPatterns(p)[k])
           /\ failedAt[p] = {}
           /\ fs \in {InstallDir(NoFile), InstallDir(LeftoverNew)}
           /\ script = "none"

\* a zip with nothing but a README, on Windows
C16_Witness ==
    /\ Downloaded(1, ".zip", "zip")
    /\ goos = "windows"
    /\ Len(Entries(1)) = 1 /\ Entries(1)[1].Name = "docs/README.txt"
    /\ ExtractFailed(1)
    /\ Contains(err[1], "launcher-windows-amd64.exe")

\* C17: in both archive branches an entry whose base name contains none of
\* the platform-specific patterns is handed on as the binary only when its
\* base name is a generic executable name and its full path contains the
\* "<os>-<arch>" token.
C17_Original ==
    \A p \in Procs :
        /\ \/ Downloaded(p, ".tar.gz", "tar.gz")
           \/ Downloaded(p, ".zip", "zip")
        /\ updateBody[p] # EmptyData
        => \A i \in 1..Len(Entries(p)) :
              /\ Entries(p)[i].Data = updateBody[p]
              /\ ~Contains(Base(Entries(p)[i].Name), PlatformToken)
              => /\ Base(Entries(p)[i].Name) \in GenericNames(p)
                 /\ Contains(Entries(p)[i].Name, PlatformToken)

(***************************************************************************)
(* Properties of CheckForUpdates (SpecCheck)                               *)
(***************************************************************************)

\* a version string without its prefix marker
Unprefixed(s) == IF HasPrefix(s, "v") THEN SubSeq(s, 2, Len(s)) ELSE s

\* the version an unprefixed string stands for
Reference(s) ==
    IF s = "dev"
    THEN [ok |-> TRUE, Major |-> 0, Minor |-> 0, Patch |-> 0, Pre |-> <<>>, Build |-> <<>>]
    ELSE SemverParse(s)

Checked == release # NoRelease

\* C9: when the current version and the release tag both parse, CheckForUpdates
\* returns no error, HasUpdate is true exactly when the tag's version is
\* strictly greater than the current one (equal versions give false, a leading
\* "v" on either side changes nothing), and LatestVersion is the raw tag.
C9_HasUpdateIffStrictlyNewer ==
    LET c == Reference(Unprefixed(currentVersion))
        t == Reference(Unprefixed(release.TagName))
    IN  (Checked /\ c.ok /\ t.ok) =>
            /\ checkErr = NoError
            /\ updateInfo # NoInfo
            /\ updateInfo.LatestVersion = release.TagName
            /\ updateInfo.HasUpdate = (VersionCompare(t, c) = 1)
            /\ VersionCompare(t, c) = 0 => ~updateInfo.HasUpdate

C9_Witness ==
    /\ Checked /\ currentVersion = "1.5.0" /\ release.TagName = "v2.0.0"
    /\ updateInfo # NoInfo
    /\ updateInfo.HasUpdate /\ updateInfo.LatestVersion = "v2.0.0"

DevBuild == currentVersion \in {"dev", "vdev"}

\* the tag is a released version that parses (not the sentinel itself)
ReleasedTag == Checked /\ SemverParse(Unprefixed(release.TagName)).ok

\* C10 as stated: a development build is offered every released version that
\* parses.
C10_Original ==
    (DevBuild /\ ReleasedTag) => (updateInfo # NoInfo /\ updateInfo.HasUpdate)

\* C10 amended: a development build, "dev" with or without the prefix marker,
\* is offered exactly the released versions whose major.minor.patch is above
\* 0.0.0 (0.0.1 among them); 0.0.0 and its pre-releases are not offered.
C10_DevOlderThanAnyNonZeroRelease ==
    (DevBuild /\ ReleasedTag) =>
        LET t == SemverParse(Unprefixed(release.TagName))
        IN  /\ updateInfo # NoInfo
            /\ updateInfo.HasUpdate = (t.Major + t.Minor + t.Patch > 0)

C10_Witness ==
    /\ Checked /\ currentVersion = "vdev" /\ release.TagName = "0.0.1"
    /\ updateInfo # NoInfo /\ updateInfo.HasUpdate

\* CheckForUpdates returned a decision
Decided == updateInfo # NoInfo

\* the asset list of the specification's example
StandardAssets ==
    <<Asset("app-windows-amd64.zip"), Asset("app-linux-amd64.tar.gz"),
      Asset("app-darwin-arm64.tar.gz")>>

NoDownload == updateInfo.DownloadURL = "" /\ updateInfo.Size = 0

\* the two example platforms of the claim get their archives
C12_Examples ==
    release.Assets = StandardAssets =>
        /\ goos = "windows" /\ goarch = "amd64"
            => updateInfo.DownloadURL = "https://dl/app-windows-amd64.zip"
        /\ goos = "linux" /\ goarch = "amd64"
            => updateInfo.DownloadURL = "https://dl/app-linux-amd64.tar.gz"

\* C12 as stated: when no asset name contains the running platform's exact
\* "<os>-<arch>" token the selector returns the empty URL and size zero
\* (Linux/386 on the example list); Windows/amd64 and Linux/amd64 get the
\* .zip and the .tar.gz URL.
C12_Original ==
    Decided =>
        /\ (\A i \in 1..Len(release.Assets) :
                ~Contains(release.Assets[i].Name, goos \o "-" \o goarch))
            => NoDownload
        /\ C12_Examples

\* the tokens findPlatformBinary looks for on this platform
C12_Tokens ==
    IF goos \notin {"darwin", "linux", "windows"} THEN {}
    ELSE {goos \o "-" \o (IF goarch \in {"amd64", "arm64", "386"} THEN goarch ELSE "amd64"),
          goos \o "-amd64", goos \o "-arm64"}

\* C12, amended: the selector returns the empty URL and size zero exactly when
\* the OS is none of darwin, linux, windows, or no asset with the OS's archive
\* suffix contains the "<os>-<arch>" token (unknown architectures read as
\* amd64) or one of the OS's two family tokens; Windows/amd64 and Linux/amd64
\* get the .zip and the .tar.gz URL of the example list.
C12_EmptyIffNoFamilyAsset ==
    Decided =>
        /\ NoDownload <=>
              ~\E i \in 1..Len(release.Assets), token \in C12_Tokens :
                  /\ Contains(release.Assets[i].Name, token)
                  /\ HasSuffix(release.Assets[i].Name,
                               IF goos = "windows" THEN ".zip" ELSE ".tar.gz")
        /\ C12_Examples

\* Windows/amd64 offered only a .tar.gz for its token: nothing to download
C12_Witness ==
    /\ Decided
    /\ goos = "windows" /\ goarch = "amd64"
    /\ \E i \in 1..Len(release.Assets) :
          Contains(release.Assets[i].Name, "windows-amd64")
    /\ NoDownload

\* C13: a non-empty URL returned by the selector is the URL of an asset whose
\* name ends in ".zip" on Windows and in ".tar.gz" on every other OS, whether
\* the exact pass or the fallback pass chose it.
C13_UrlHasTheOSSuffix ==
    Decided /\ updateInfo.DownloadURL # "" =>
        \E i \in 1..Len(release.Assets) :
            /\ release.Assets[i].BrowserDownloadURL = updateInfo.DownloadURL
            /\ release.Assets[i].Size = updateInfo.Size
            /\ IF goos = "windows"
               THEN HasSuffix(release.Assets[i].Name, ".zip")
               ELSE HasSuffix(release.Assets[i].Name, ".tar.gz")

\* Linux/amd64 offered app-linux-amd64.zip: the fallback pass picks the
\* arm64 .tar.gz instead
C13_Witness ==
    /\ Decided
    /\ goos = "linux" /\ goarch = "amd64"
    /\ \E i \in 1..Len(release.Assets) : release.Assets[i].Name = "app-linux-amd64.zip"
    /\ updateInfo.DownloadURL = "https://dl/app-linux-arm64.tar.gz"

(***************************************************************************)
(* Properties of version parsing (SpecParse)                               *)
(***************************************************************************)

\* lexicographic comparison of two numeric triples: -1, 0 or 1
TripleCompare(x, y) ==
    IF x[1] # y[1] THEN (IF x[1] > y[1] THEN 1 ELSE -1)
    ELSE IF x[2] # y[2] THEN (IF x[2] > y[2] THEN 1 ELSE -1)
    ELSE IF x[3] # y[3] THEN (IF x[3] > y[3] THEN 1 ELSE -1)
    ELSE 0

\* C11: two major.minor.patch strings, each with or without the "v" prefix,
\* both parse, and the parsed versions compare as their numeric triples
\* compare lexicographically.
C11_ParsedOrderIsTripleOrder ==
    parsed # NoParsed =>
        /\ parsed.va.ok /\ parsed.vb.ok
        /\ VersionCompare(parsed.va, parsed.vb)
             = TripleCompare(parsed.a.triple, parsed.b.triple)

\* "v1.10.0" against "1.9.0": the two-digit minor is the greater one
C11_Witness ==
    /\ parsed # NoParsed
    /\ parsed.a.str = "v1.10.0" /\ parsed.b.str = "1.9.0"
    /\ VersionCompare(parsed.va, parsed.vb) = 1

(***************************************************************************)
(* Properties of the callers (SpecMenu)                                    *)
(***************************************************************************)

InSeq(e, seq) == \E i \in 1..Len(seq) : seq[i] = e

\* e occurs in seq, and every f in seq comes after the first e
Before(e, f, seq) ==
    \E i \in 1..Len(seq) :
        /\ seq[i] = e
        /\ \A j \in 1..Len(seq) : seq[j] = f => i < j

ErrorShown ==
    \E i \in 1..Len(events) :
        HasPrefix(events[i], "ShowError: ") \/ HasPrefix(events[i], "showError: ")

\* CheckForUpdates has returned a decision for a release that has no asset
\* for the running platform
NoPlatformAsset == Decided /\ updateInfo.DownloadURL = ""

\* the decision for such a release has size zero and comes without an error
C14_DecisionWithoutError ==
    NoPlatformAsset => updateInfo.Size = 0 /\ checkErr = NoError

\* after such a decision the caller does not invoke PerformUpdate
C14_NoPerformUpdate ==
    NoPlatformAsset => at \notin {"perform", "installing"} /\ ~InSeq("PerformUpdate", events)

\* after such a decision the caller's action returns no error and no error
\* is put on display
C14_NoFailureReported ==
    NoPlatformAsset => fnErr = NoError /\ ~ErrorShown

\* the terminal menu treats such a decision as "no applicable update"
C14_TerminalStopsAtTheWarning ==
    front = "terminal" => C14_NoPerformUpdate /\ C14_NoFailureReported

\* C14: a release with no asset for the running platform never surfaces as
\* an error: CheckForUpdates returns a decision with empty download URL, size
\* zero and no error, and every caller, the terminal menu and the GUI, then
\* neither invokes PerformUpdate nor reports a failure.
C14_Original ==
    /\ C14_DecisionWithoutError
    /\ C14_NoPerformUpdate
    /\ C14_NoFailureReported

\* C18: an error of CheckForUpdates or PerformUpdate that stems from the
\* cancellation of ctx during the HTTP request reaches executeWithInterrupt
\* as an error IsInterruptError classifies as a cancellation.
C18_Original ==
    /\ front = "terminal" /\ at = "fn_returned"
    /\ HasSuffix(fnErr, Canceled)
    => IsInterruptError(fnErr)

InterruptWarning == "ShowWarning: Operation was interrupted but may have completed"

MenuEnds == {"Exit", "^C", "interrupt", "^D"}

\* C19 as stated: whenever the update action returns an error the main loop
\* shows that error and presents the menu again, unless a signal has ended
\* the process; the loop ends only on Exit or on a menu cancellation or
\* selection failure.
C19_Original ==
    [][/\ front = "terminal" /\ at \in ReturnPoints /\ at' \notin {at, "killed"}
          /\ fnErr # NoError
          => at' = "menu" /\ InSeq("ShowError: " \o fnErr, events')
       /\ at' \in {"exited", "failed"} /\ at' # at
          => at = "menu" /\ choice' \in MenuEnds]_vars

\* C19, amended: whenever the update action returns an error the main loop
\* presents the menu again, unless a signal has ended the process, having
\* shown that error or, when the interrupt handler holds a notification, the
\* interruption warning in its place; the loop ends only on Exit or on a menu
\* cancellation or selection failure.
C19_ErrorShownUnlessInterrupted ==
    [][/\ front = "terminal" /\ at \in ReturnPoints /\ at' \notin {at, "killed"}
          /\ fnErr # NoError
          => /\ at' = "menu"
             /\ IF at = "return_nil"
                THEN InSeq(InterruptWarning, events') /\ ~InSeq("ShowError: " \o fnErr, events')
                ELSE InSeq("ShowError: " \o fnErr, events')
       /\ at' \in {"exited", "failed"} /\ at' # at
          => at = "menu" /\ choice' \in MenuEnds]_vars

\* back at the menu after PerformUpdate failed, the error on display
C19_Witness ==
    /\ front = "terminal" /\ at = "menu"
    /\ HasPrefix(fnErr, "failed to apply update: ")
    /\ InSeq("ShowError: " \o fnErr, events)

Decision == "ShowSuccess: A new version is available!"

Persisted == "config.Version = " \o updateInfo.LatestVersion

\* C20 as stated: decision, confirmation, PerformUpdate, version persisted,
\* restart instruction, in this order.
C20_Original ==
    front = "terminal" =>
        /\ InSeq("PerformUpdate", events)
            => /\ Before(Decision, "ConfirmOperation: yes", events)
               /\ Before("ConfirmOperation: yes", "PerformUpdate", events)
        /\ InSeq(RestartNote, events)
            => /\ Before("PerformUpdate", Persisted, events)
               /\ Before(Persisted, RestartNote, events)

\* C20, amended: in the terminal's update action the order is decision,
\* confirmation, PerformUpdate, restart instruction, and only then the new
\* version is set in the configuration and saved, a failed save leaving the
\* stored file as it was until a later save; PerformUpdate is never invoked
\* without the confirmation before it, in the GUI neither; the version in
\* memory changes only after PerformUpdate returned without error, to the
\* release's tag, and the stored version only to the version in memory.
C20_OrderOfTheUpdateAction ==
    /\ [](front = "terminal" =>
            /\ InSeq("PerformUpdate", events)
                => /\ Before(Decision, "ConfirmOperation: yes", events)
                   /\ Before("ConfirmOperation: yes", "PerformUpdate", events)
            /\ InSeq(RestartNote, events)
                => /\ Before("PerformUpdate", RestartNote, events)
                   /\ Before(RestartNote, Persisted, events)
                   /\ config.Version = updateInfo.LatestVersion)
    /\ [](front = "gui" /\ InSeq("PerformUpdate", events)
            => /\ Before("confirmAction: Update Available", "confirmAction: yes", events)
               /\ Before("confirmAction: yes", "PerformUpdate", events))
    /\ [][/\ config'.Version # config.Version
               => /\ front = "terminal" /\ at = "installing"
                  /\ pc[1] = "returned" /\ err[1] = NoError
                  /\ InSeq("ConfirmOperation: yes", events)
                  /\ config'.Version = updateInfo.LatestVersion
          /\ configFile'.Version # configFile.Version
               => configFile'.Version = config'.Version]_vars

\* the update went through and the tag v2.0.0 is stored
C20_Witness ==
    /\ front = "terminal" /\ at = "menu"
    /\ InSeq("Save", events)
    /\ config.Version = "v2.0.0" /\ configFile.Version = "v2.0.0"

(***************************************************************************)
(* The POSIX install and the early returns of PerformUpdate (Spec)         *)
(***************************************************************************)

\* the call got as far as the install strategy
Installing(p) ==
    request[p] # NoRequest /\ Prepared(request[p], goos, goarch).ok

\* C23: when every step of the POSIX install succeeded, the call returns no
\* error, the executable path holds the extracted binary with mode 0755 and
\* nothing exists under the .backup name.
C23_SuccessInstallsTheNewBinary ==
    \A p \in Procs :
        Returned(p) /\ ~IsWindows /\ Installing(p) /\ failedAt[p] = {}
            => /\ err[p] = NoError
               /\ fs[CurrentExe] = [data |-> updateBody[p], mode |-> Mode0755]
               /\ ~Exists(fs, BackupPath)

\* a 2048-byte binary was installed on a POSIX platform with no failed step
C23_Witness ==
    /\ Returned(1) /\ ~IsWindows /\ Installing(1) /\ failedAt[1] = {}
    /\ updateBody[1].size = 2048
    /\ fs[CurrentExe].data = updateBody[1]

\* C24: a PerformUpdate call whose request fails at or before the extraction
\* (empty URL, executable path, download error, status, extraction) returns
\* in the same step with its error, and no path of the file system and no
\* script changes in that step.
C24_EarlyFailureTouchesNoFile ==
    [][\A p \in Procs :
          /\ pc[p] = "idle" /\ request'[p] # request[p]
          /\ ~Prepared(request'[p], goos, goarch).ok
          => /\ pc'[p] = "returned"
             /\ err'[p] = Prepared(request'[p], goos, goarch).err
             /\ err'[p] # NoError
             /\ fs' = fs
             /\ script' = script]_vars

\* the call returned with an extraction error and only the original binary
\* is on disk
C24_Witness ==
    /\ Returned(1)
    /\ HasPrefix(err[1], "failed to extract binary from archive: ")
    /\ \A path \in Paths : Exists(fs, path) <=> path = CurrentExe
    /\ fs[CurrentExe] = OriginalBinary

(***************************************************************************)
(* The asset selector against the archive extractor (SpecMenu)             *)
(***************************************************************************)

\* the "<os>-<arch>" tokens release assets are named with
ReleaseTokens ==
    {os \o "-" \o arch : os \in DOMAIN platformMap, arch \in {"amd64", "arm64", "386"}}

\* entry is the launcher binary built under token
BuiltUnder(entry, token) ==
    /\ entry.Typeflag = "reg"
    /\ entry.Data.size >= MinBinarySize
    /\ Base(entry.Name) \in {"ddalab-launcher-" \o token, "ddalab-launcher-" \o token \o ".exe"}

\* PerformUpdate was called with the URL the check selected, and the download
\* answered with an archive that holds the binary built under a token of that
\* URL, and no smaller entry named with that token
SelectedArchiveHoldsItsBinary ==
    /\ pc[1] # "idle" /\ request[1] # NoRequest
    /\ updateInfo # NoInfo
    /\ request[1].url = updateInfo.DownloadURL /\ request[1].url # ""
    /\ ~request[1].resp.neterr /\ request[1].resp.StatusCode = 200
    /\ \E token \in ReleaseTokens :
          /\ Contains(request[1].url, token)
          /\ \E i \in 1..Len(request[1].resp.Body.entries) :
                BuiltUnder(request[1].resp.Body.entries[i], token)
          /\ \A i \in 1..Len(request[1].resp.Body.entries) :
                Contains(request[1].resp.Body.entries[i].Name, token)
                    => request[1].resp.Body.entries[i].Data.size >= MinBinarySize

\* C25: whenever the selector returned an asset and its archive holds the
\* binary built under the token of the asset's name, the extractor of the
\* same platform finds that binary: the call does not fail in the extraction.
C25_Original ==
    SelectedArchiveHoldsItsBinary
        => ~HasPrefix(err[1], "failed to extract binary from archive: ")

(***************************************************************************)
(* Two POSIX installs at once (SpecRace)                                   *)
(***************************************************************************)

\* the binaries the executable path may hold once both calls are over
CompleteBinaries ==
    {OriginalBinary}
    \cup {[data |-> updateBody[p], mode |-> Mode0755] : p \in {q \in Procs : Installing(q)}}

\* C26: without I/O failures from the environment, once both concurrent POSIX
\* installs have returned, the executable path holds the original or one of
\* the two new binaries, whole, and neither the .backup file nor a temporary
\* file exists.
C26_RaceLeavesOneBinary ==
    (~faults /\ \A p \in Procs : Returned(p))
        => /\ fs[CurrentExe] \in CompleteBinaries
           /\ ~Exists(fs, BackupPath)
           /\ \A p \in Procs : ~Exists(fs, TempPath(p))

\* both calls got to the install; the second found the executable path empty
\* at its backup rename and gave up, the first installed its binary
C26_Witness ==
    /\ ~faults
    /\ \A p \in Procs : Returned(p) /\ Installing(p)
    /\ updateBody[1] # updateBody[2]
    /\ err[1] = NoError /\ err[2] = "failed to backup current binary"
    /\ fs[CurrentExe].data = updateBody[1]

(***************************************************************************)
(* The update check at startup and the uninstall action (SpecLauncher)     *)
(***************************************************************************)

\* a step that ends the startup of the terminal launcher: the main loop
\* reaches its menu, or the first-time setup ends the process
StartupEnds ==
    /\ front = "terminal" /\ at \in {"startup_check", "setup"}
    /\ at' \in {"menu", "exited", "failed", "start"}

\* a step in which CheckForUpdates is called
CheckPerformed == checks' = checks + 1

\* a check is performed at startup exactly when auto_update_check is on and
\* update_check_interval_hours have passed since last_update_check
C21_CheckedExactlyWhenDue ==
    [][StartupEnds => (CheckPerformed <=> ShouldCheckForUpdates(config, now))]_vars

\* a performed check, successful or not, sets last_update_check to the current time
C21_CheckSetsTheTime ==
    [][StartupEnds /\ CheckPerformed => config'.LastUpdateCheck = now]_vars

\* no check is performed at a startup within the interval after a performed check
C21_NoCheckWithinTheInterval ==
    [][StartupEnds /\ CheckPerformed /\ checkTimes # <<>>
          => now - checkTimes[Len(checkTimes)] >= config.UpdateCheckInterval]_vars

\* C21: at startup a check is performed exactly when auto_update_check is on
\* and the interval has passed since last_update_check; a performed check,
\* successful or failed, sets last_update_check to the current time; a further
\* startup within the interval of a performed check performs no check.
C21_Original ==
    /\ C21_CheckedExactlyWhenDue
    /\ C21_CheckSetsTheTime
    /\ C21_NoCheckWithinTheInterval

\* the answers "yes" among the events of the running operation
Affirmations == {i \in 1..Len(events) : HasSuffix(events[i], ": yes")}

\* C22: commander.Uninstall() is called only after two separate
\* confirmations were affirmed, in the terminal and in the GUI, and never
\* after one was declined.
C22_Original ==
    InSeq("Uninstall", events)
        => /\ Cardinality(Affirmations) >= 2
           /\ \A i \in 1..Len(events) : ~HasSuffix(events[i], ": no")

(***************************************************************************)
(* The status monitor (SpecMonitor, SpecMonitorLive)                       *)
(***************************************************************************)

\* loop l was started and has not returned
Alive(l) == l \in DOMAIN loops /\ loops[l] # "exited"

\* Stop has set running to false and returned, and no call is under way
Stopped == ~running /\ \A c \in MonitorCallers : callers[c] = "idle"

\* C27: once Stop() has returned on a started monitor, the monitor loop
\* eventually exits (unless the monitor is started again), and while the
\* monitor is stopped no loop goes from its select into a status check.
C27_Original ==
    /\ \A l \in 1..MaxMonitorCalls :
          (Alive(l) /\ Stopped) ~> (running \/ ~Alive(l))
    /\ [][Stopped => \A l \in DOMAIN loops :
                        ~(loops[l] = "select" /\ loops'[l] = "checking")]_vars

\* C28: at most one monitor loop is alive at any time.
C28_Original ==
    Cardinality({l \in DOMAIN loops : loops[l] # "exited"}) <= 1

(***************************************************************************)
(* The cursor of the configuration editor (SpecEditor)                     *)
(***************************************************************************)

\* C30: after any sequence of keys the cursor is within
\* 0..max(0, len(filteredVars) - 1), and Enter never indexes outside the
\* filtered list.
C30_Original ==
    /\ 0 <= editor.cursor
    /\ editor.cursor <= max(0, Len(editor.filteredVars) - 1)
    /\ ~editor.panic

\* C29: executeWithInterrupt takes its WasInterrupted() branch, which returns
\* nil in place of the operation's error, only when an interrupt signal was
\* delivered while that same operation was active before the check; a
\* notification of a signal of an earlier operation, or of one that came after
\* the earlier operation's check, never does it.
C29_Original ==
    [][(front = "terminal" /\ at = "fn_returned" /\ at' = "return_nil"
           /\ ~IsInterruptError(fnErr))
          => ctx = "cancelled"]_vars

====
